---- MODULE Spec2Model ----
(***************************************************************************)
(* A model of the text2sql evaluation core:                                *)
(*   - compare_results          (src/scripts/sql_utils.py)                 *)
(*   - repair_pred_table_names  (src/scripts/sql_utils.py)                 *)
(*   - fill_gold_sql            (src/scripts/sql_utils.py)                 *)
(*   - normalize_pred_sql       (src/scripts/sql_utils.py)                 *)
(*   - DatabaseManager          (src/database/db_manager.py)               *)
(*   - GPT2XLAgent prompt budget (src/models/gpt2xl_agent.py)              *)
(* Each pure function is an operator computed the way the code computes    *)
(* it; each specification draws the function's inputs from bounded sets    *)
(* and applies it in an action.                                            *)
(***************************************************************************)
EXTENDS Integers, Sequences, FiniteSets, TLC

VARIABLES
    result1,      \* compare_results: first argument (a table or None)
    result2,      \* compare_results: second argument (a table or None)
    pandasBuild,  \* how the installed pandas sorts a mixed column by several keys
    cmpOut,       \* outcome of compare_results(result1, result2)
    cmpPc,        \* "idle" | "ready" | "done"
    sql,          \* repair_pred_table_names: the predicted SQL (sequence of characters)
    nSegs,        \* number of segments the predicted SQL was composed of
    actualTables, \* repair_pred_table_names: actual_tables (sequence of names)
    repOut,       \* outcome of the first repair: [sql, changes]
    repOut2,      \* outcome of repairing repOut.sql again
    repPc,        \* "idle" | "ready" | "once" | "twice"
    question,     \* _select_tables: the question (sequence of characters)
    schemaMap,    \* schema_map in iteration order: sequence of [name, cols]
    fkGraph,      \* fk_graph: None or a mapping from table names to sets of names
    maxTables,    \* _select_tables: max_tables
    addNeighbors, \* _select_tables: add_neighbors
    ranked,       \* what _rank_tables_for_question returned: sequence of [name, score]
    selected,     \* what _select_tables returned: sequence of names
    selPc,        \* "idle" | "introspect" | "selected"
    sqlList,      \* fill_gold_sql: entry["sql"], sequence of SQL variants
    sentVars,     \* fill_gold_sql: sentence["variables"], sequence of [name, value]
    entryVars,    \* fill_gold_sql: entry["variables"], sequence of [name, example]
    fillOut,      \* outcome of fill_gold_sql: [raised, sql]
    fillPc,   \* "idle" | "collect" | "filled"
    predSql,      \* normalize_pred_sql: pred_sql (sequence of characters)
    schemaTables, \* normalize_pred_sql: schema_tables (sequence of names)
    nPieces,      \* number of pieces pred_sql was composed of
    normOut,      \* what normalize_pred_sql returned
    normPc,       \* "idle" | "compose" | "normalized"
    dbWorld,      \* the schema each database has at the moment
    database,     \* DatabaseManager: self.database
    engineDb,     \* DatabaseManager: the database self.engine is connected to
    schemaMapCache,\* DatabaseManager: self._schema_map_cache
    fkGraphCache, \* DatabaseManager: self._fk_graph_cache
    fresh,        \* cache entries populated since the last switch_database
    lastCall,     \* the last call on the manager and what it returned
    nCalls,       \* number of calls made on the manager
    tokIn,        \* the text given to the tokenizer (sequence of characters)
    nTokPieces,   \* number of pieces the text was composed of
    tokIdent,     \* the stems of the text tokenized as a table or column name
    tokNorm,      \* what _normalize_tokens returned for the text
    tokPc,        \* "idle" | "compose" | "tokenized"
    schemaLines,  \* GPT2XLAgent: token count of each line of the schema
    questionLen,  \* GPT2XLAgent: token count of the question
    maxNewTokens, \* GPT2XLAgent: max_new_tokens
    overhead,     \* GPT2XLAgent: token count of prefix, mid and suffix together
    promptOut,    \* what _make_inputs_under_limit returned
    promptPc      \* "idle" | "compose" | "built"

cmpVars == <<result1, result2, pandasBuild, cmpOut, cmpPc>>
repVars == <<sql, nSegs, actualTables, repOut, repOut2, repPc>>
selVars == <<question, schemaMap, fkGraph, maxTables, addNeighbors, ranked, selected, selPc>>
fillVars == <<sqlList, sentVars, entryVars, fillOut, fillPc>>

\* the table selector and the gold-SQL filler at rest
SelIdle ==
    /\ question = <<>>
    /\ schemaMap = <<>>
    /\ fkGraph = [none |-> TRUE]
    /\ maxTables = 0
    /\ addNeighbors = FALSE
    /\ ranked = <<>>
    /\ selected = <<>>
    /\ selPc = "idle"

FillIdle ==
    /\ sqlList = <<>>
    /\ sentVars = <<>>
    /\ entryVars = <<>>
    /\ fillOut = [raised |-> FALSE, sql |-> <<>>]
    /\ fillPc = "idle"

\* the state of the further components, and each of them at rest
normVars == <<predSql, schemaTables, nPieces, normOut, normPc>>
dbVars == <<dbWorld, database, engineDb, schemaMapCache, fkGraphCache, fresh, lastCall, nCalls>>
tokVars == <<tokIn, nTokPieces, tokIdent, tokNorm, tokPc>>
promptVars == <<schemaLines, questionLen, maxNewTokens, overhead, promptOut, promptPc>>
extVars == <<normVars, dbVars, tokVars, promptVars>>
baseVars == <<cmpVars, repVars, selVars, fillVars>>
vars == <<baseVars, extVars>>

\* all variables but those of one component
exceptNormVars == <<baseVars, dbVars, tokVars, promptVars>>
exceptDbVars == <<baseVars, normVars, tokVars, promptVars>>
exceptTokVars == <<baseVars, normVars, dbVars, promptVars>>
exceptPromptVars == <<baseVars, normVars, dbVars, tokVars>>

NormIdle ==
    /\ predSql = <<>>
    /\ schemaTables = <<>>
    /\ nPieces = 0
    /\ normOut = <<>>
    /\ normPc = "idle"

DbIdle ==
    /\ dbWorld = <<>>
    /\ database = "None"
    /\ engineDb = "None"
    /\ schemaMapCache = <<>>
    /\ fkGraphCache = <<>>
    /\ fresh = {}
    /\ lastCall = <<>>
    /\ nCalls = 0

TokIdle ==
    /\ tokIn = <<>>
    /\ nTokPieces = 0
    /\ tokIdent = <<>>
    /\ tokNorm = <<>>
    /\ tokPc = "idle"

PromptIdle ==
    /\ schemaLines = <<>>
    /\ questionLen = 0
    /\ maxNewTokens = 0
    /\ overhead = 0
    /\ promptOut = <<>>
    /\ promptPc = "idle"

ExtIdle == NormIdle /\ DbIdle /\ TokIdle /\ PromptIdle

(***************************************************************************)
(* Generic helpers                                                         *)
(***************************************************************************)
Range(s) == {s[i] : i \in 1..Len(s)}

RECURSIVE SeqsUpTo(_, _)
SeqsUpTo(S, n) ==
    IF n = 0 THEN {<<>>}
    ELSE LET shorter == SeqsUpTo(S, n - 1)
         IN  shorter \cup {Append(s, x) : s \in {t \in shorter : Len(t) = n - 1}, x \in S}

(***************************************************************************)
(* Result tables (pandas DataFrames built by execute_query)                *)
(***************************************************************************)
\* result is None: no rows returned, or the execution failed
None == [none |-> TRUE]

\* SQL NULL in a cell (None / NaN in the DataFrame)
NULL == "<null>"

\* the sentinel string compare_results writes into null cells
Sentinel == "__NULL__"

\* the most cells (rows times columns) a modelled result holds
MaxCells == 4

NumCells == {"1", "2"}
StrCells == {"x", Sentinel}

\* columns a and c are numeric, column b is text; all are nullable
CellsOf(c) == IF c = "b" THEN StrCells \cup {NULL} ELSE NumCells \cup {NULL}

\* the column lists of the modelled results (SQL allows a repeated name)
ColLists == {<<"a">>, <<"a", "b">>, <<"b", "a">>, <<"a", "a">>, <<"a", "b", "c">>}

RowsOf(cols) == {r \in [1..Len(cols) -> NumCells \cup StrCells \cup {NULL}] :
                    \A i \in 1..Len(cols) : r[i] \in CellsOf(cols[i])}

Frame(cols, rows) == [none |-> FALSE, columns |-> cols, rows |-> rows]

Frames == UNION {{Frame(cols, rows) : rows \in SeqsUpTo(RowsOf(cols), MaxCells \div Len(cols))} :
                    cols \in ColLists}

(***************************************************************************)
(* The pandas operations compare_results calls                             *)
(***************************************************************************)
IsNum(c) == c \in NumCells

\* position of a cell in the order a sort puts cells in: numbers by value,
\* then strings by code point ('_' sorts before 'x')
CellRank(c) ==
    CASE c = "1" -> 1
      [] c = "2" -> 2
      [] c = Sentinel -> 3
      [] c = "x" -> 4
      [] OTHER -> 5

\* position of a column name in sorted(columns)
NameRank(c) == IF c = "a" THEN 1 ELSE IF c = "b" THEN 2 ELSE 3

\* set(df.columns)
ColumnSet(df) == Range(df.columns)

RECURSIVE InsertLabel(_, _)
InsertLabel(sorted, c) ==
    IF sorted = <<>> THEN <<c>>
    ELSE IF NameRank(c) < NameRank(Head(sorted)) THEN <<c>> \o sorted
    ELSE <<Head(sorted)>> \o InsertLabel(Tail(sorted), c)

\* sorted(df.columns.tolist())
RECURSIVE SortedLabels(_)
SortedLabels(cols) ==
    IF cols = <<>> THEN <<>> ELSE InsertLabel(SortedLabels(Tail(cols)), Head(cols))

\* positions of the columns of df labelled c, in frame order
RECURSIVE PositionsOf(_, _, _)
PositionsOf(columns, c, i) ==
    IF i > Len(columns) THEN <<>>
    ELSE (IF columns[i] = c THEN <<i>> ELSE <<>>) \o PositionsOf(columns, c, i + 1)

\* positions df[labels] takes: a label repeated in df selects every column carrying it
RECURSIVE TakenPositions(_, _)
TakenPositions(columns, labels) ==
    IF labels = <<>> THEN <<>>
    ELSE PositionsOf(columns, Head(labels), 1) \o TakenPositions(columns, Tail(labels))

\* df[labels].copy()
GetItem(df, labels) ==
    LET pos == TakenPositions(df.columns, labels)
    IN  Frame([i \in 1..Len(pos) |-> df.columns[pos[i]]],
              [k \in 1..Len(df.rows) |-> [i \in 1..Len(pos) |-> df.rows[k][pos[i]]]])

\* df.shape
Shape(df) == <<Len(df.rows), Len(df.columns)>>

\* df.fillna("__NULL__")
FillNa(df) ==
    Frame(df.columns,
          [k \in 1..Len(df.rows) |->
              [i \in 1..Len(df.columns) |->
                  IF df.rows[k][i] = NULL THEN Sentinel ELSE df.rows[k][i]]])

\* the cells of column i
ColumnCells(df, i) == {df.rows[k][i] : k \in 1..Len(df.rows)}

\* a column holding numbers and strings: '<' between them raises TypeError
MixedColumn(df, i) ==
    /\ \E c \in ColumnCells(df, i) : IsNum(c)
    /\ \E c \in ColumnCells(df, i) : ~IsNum(c)

\* lexicographic order of two rows over all columns
RECURSIVE RowLeq(_, _, _)
RowLeq(r, s, i) ==
    IF i > Len(r) THEN TRUE
    ELSE IF CellRank(r[i]) < CellRank(s[i]) THEN TRUE
    ELSE IF CellRank(r[i]) > CellRank(s[i]) THEN FALSE
    ELSE RowLeq(r, s, i + 1)

RECURSIVE InsertRow(_, _)
InsertRow(sorted, r) ==
    IF sorted = <<>> THEN <<r>>
    ELSE IF RowLeq(r, Head(sorted), 1) THEN <<r>> \o sorted
    ELSE <<Head(sorted)>> \o InsertRow(Tail(sorted), r)

RECURSIVE SortRows(_)
SortRows(rows) ==
    IF rows = <<>> THEN <<>> ELSE InsertRow(SortRows(Tail(rows)), Head(rows))

\* whether df.sort_values(by=by) raises:
\*   ValueError when a label of by names several columns of df;
\*   TypeError when one key column mixes numbers and strings (nargsort);
\*   with several keys a mixed column is factorized, which the "strict"
\*   build refuses and the "lenient" build orders numbers before strings
SortRaises(df, by, build) ==
    \/ \E i \in 1..Len(by) : Len(PositionsOf(df.columns, by[i], 1)) > 1
    \/ /\ Len(by) = 1
       /\ MixedColumn(df, 1)
    \/ /\ Len(by) > 1
       /\ build = "strict"
       /\ \E i \in 1..Len(df.columns) : MixedColumn(df, i)

\* sort_values left out: the rows stay in the order the query returned them
SortValues_Unsorted(df, by) == df

\* df.sort_values(by=by).reset_index(drop=True), when it does not raise
SortValues(df, by) == Frame(df.columns, SortRows(df.rows))

\* dtype of column i after fillna: a column of numbers only is int64, any
\* other (strings, filled nulls, no rows) is object
DType(df, i) ==
    IF Len(df.rows) > 0 /\ \A c \in ColumnCells(df, i) : IsNum(c) THEN "int64" ELSE "object"

\* df1.equals(df2): same labels, same dtypes, same cells
Equals(df1, df2) ==
    /\ df1.columns = df2.columns
    /\ Len(df1.rows) = Len(df2.rows)
    /\ \A i \in 1..Len(df1.columns) : DType(df1, i) = DType(df2, i)
    /\ df1.rows = df2.rows

\* the try block with the second frame left unsorted
TryCompare_SortFirstOnly(df1, df2, cols, build) ==
    LET f1 == FillNa(df1)
        f2 == FillNa(df2)
    IN  IF SortRaises(f1, cols, build) THEN "false"
        ELSE IF Equals(Frame(f1.columns, SortRows(f1.rows)), f2) THEN "true"
        ELSE "false"

\* the try block of compare_results; any exception gives False
TryCompare(df1, df2, cols, build) ==
    LET f1 == FillNa(df1)
        f2 == FillNa(df2)
    IN  IF SortRaises(f1, cols, build) \/ SortRaises(f2, cols, build) THEN "false"
        ELSE IF Equals(SortValues(f1, cols), SortValues(f2, cols)) THEN "true"
        ELSE "false"

\* compare_results without the None test: None has no attribute columns
CompareResults_NoNoneCheck(r1, r2, build) ==
    IF r1.none \/ r2.none THEN "raise"
    ELSE IF ColumnSet(r1) # ColumnSet(r2) THEN "false"
    ELSE LET cols == SortedLabels(r1.columns)
             df1 == GetItem(r1, cols)
             df2 == GetItem(r2, cols)
         IN  IF Shape(df1) # Shape(df2) THEN "false"
             ELSE TryCompare(df1, df2, cols, build)

\* compare_results(r1, r2): "true", "false", or "raise" for an exception that
\* leaves the function
CompareResults(r1, r2, build) ==
    IF r1.none \/ r2.none THEN "false"
    ELSE IF ColumnSet(r1) # ColumnSet(r2) THEN "false"
    ELSE LET cols == SortedLabels(r1.columns)
             df1 == GetItem(r1, cols)
             df2 == GetItem(r2, cols)
         IN  IF Shape(df1) # Shape(df2) THEN "false"
             ELSE TryCompare(df1, df2, cols, build)

(***************************************************************************)
(* Text: a string is a sequence of one-character strings                   *)
(***************************************************************************)
UpperCase == {"D", "F", "R", "O", "M", "A", "T", "E", "S", "L", "C"}
LowerCase == {"a", "c", "d", "e", "f", "g", "h", "i", "j", "l", "m", "n", "o", "p", "r", "s", "t",
              "u", "x", "z"}
Digits == {"1"}

\* str.lower() of one character
Lower(c) ==
    CASE c = "D" -> "d" [] c = "F" -> "f" [] c = "R" -> "r" [] c = "O" -> "o"
      [] c = "M" -> "m" [] c = "A" -> "a" [] c = "T" -> "t" [] c = "E" -> "e"
      [] c = "S" -> "s" [] c = "L" -> "l" [] c = "C" -> "c" [] OTHER -> c

\* str.lower()
LowerStr(str) == [k \in 1..Len(str) |-> Lower(str[k])]

\* \w
IsWordChar(c) == c \in UpperCase \cup LowerCase \cup Digits \cup {"_"}

\* [A-Za-z_]
IsIdentStart(c) == c \in UpperCase \cup LowerCase \cup {"_"}

\* the grave accent character (SANY accepts none inside a string literal)
Backtick == "grave"

\* \s
IsSpace(c) == c \in {" ", "\n"}

\* str[from..] (1-based, inclusive), empty when from is past the end
Suffix(str, from) == SubSeq(str, from, Len(str))

\* whether str holds word at position i
HasAt(str, i, word) ==
    /\ i >= 1
    /\ i + Len(word) - 1 <= Len(str)
    /\ SubSeq(str, i, i + Len(word) - 1) = word

(***************************************************************************)
(* _QUOTED: '(?:''|[^'])*' | "(?:""|[^"])*"                                *)
(***************************************************************************)
\* The greedy scan of a literal body from position p, q the quote character.
\* lastPair is the position of the last doubled quote consumed (0: none).
\* Gives the position after the match, or 0 when there is no match: at the
\* end of the text the matcher backtracks to the last doubled quote and
\* closes the literal at its first character.
RECURSIVE QuotedScan(_, _, _, _)
QuotedScan(str, p, q, lastPair) ==
    IF p > Len(str) THEN (IF lastPair = 0 THEN 0 ELSE lastPair + 1)
    ELSE IF str[p] = q
         THEN IF p + 1 <= Len(str) /\ str[p + 1] = q
              THEN QuotedScan(str, p + 2, q, p)
              ELSE p + 1
         ELSE QuotedScan(str, p + 1, q, lastPair)

\* position after the match of _QUOTED starting at i, or 0
QuotedEnd(str, i) ==
    IF str[i] \in {"'", "\""} THEN QuotedScan(str, i + 1, str[i], 0) ELSE 0

\* _QUOTED.split(sql) from position pos, start being where the current
\* unquoted part began: unquoted and quoted parts alternate
RECURSIVE SplitFrom(_, _, _)
SplitFrom(str, start, pos) ==
    IF pos > Len(str) THEN <<SubSeq(str, start, Len(str))>>
    ELSE LET e == QuotedEnd(str, pos)
         IN  IF e = 0 THEN SplitFrom(str, start, pos + 1)
             ELSE <<SubSeq(str, start, pos - 1), SubSeq(str, pos, e - 1)>>
                  \o SplitFrom(str, e, e)

\* _QUOTED.split(sql)
SplitQuoted(str) == SplitFrom(str, 1, 1)

(***************************************************************************)
(* _TABLE_POS: \b(?:from|join|update|into|delete\s+from)\b\s+ followed by *)
(* an optional backtick, the token [A-Za-z_][\w]* and an optional         *)
(* backtick, with re.IGNORECASE                                           *)
(***************************************************************************)
KwFrom == <<"f", "r", "o", "m">>
KwJoin == <<"j", "o", "i", "n">>
KwUpdate == <<"u", "p", "d", "a", "t", "e">>
KwInto == <<"i", "n", "t", "o">>
KwDelete == <<"d", "e", "l", "e", "t", "e">>

\* whether str holds word at position i, ignoring case
HasAtCI(str, i, word) ==
    /\ i >= 1
    /\ i + Len(word) - 1 <= Len(str)
    /\ \A k \in 1..Len(word) : Lower(str[i + k - 1]) = word[k]

\* position after the whitespace run starting at p (p itself when there is none)
RECURSIVE SkipSpaces(_, _)
SkipSpaces(str, p) ==
    IF p <= Len(str) /\ IsSpace(str[p]) THEN SkipSpaces(str, p + 1) ELSE p

\* position after the run of \w characters starting at p
RECURSIVE SkipWord(_, _)
SkipWord(str, p) ==
    IF p <= Len(str) /\ IsWordChar(str[p]) THEN SkipWord(str, p + 1) ELSE p

WordAt(str, p) == p >= 1 /\ p <= Len(str) /\ IsWordChar(str[p])

\* \b between positions p-1 and p
WordBoundary(str, p) == WordAt(str, p - 1) # WordAt(str, p)

\* delete\s+from: p is the position after delete, q the one after the whitespace
DeleteFromEnd(str, p, q) ==
    IF q > p /\ HasAtCI(str, q, KwFrom) THEN q + Len(KwFrom) ELSE 0

\* position after the keyword alternative that matches at i, or 0
KeywordEnd(str, i) ==
    IF HasAtCI(str, i, KwFrom) THEN i + Len(KwFrom)
    ELSE IF HasAtCI(str, i, KwJoin) THEN i + Len(KwJoin)
    ELSE IF HasAtCI(str, i, KwUpdate) THEN i + Len(KwUpdate)
    ELSE IF HasAtCI(str, i, KwInto) THEN i + Len(KwInto)
    ELSE IF HasAtCI(str, i, KwDelete)
         THEN DeleteFromEnd(str, i + Len(KwDelete), SkipSpaces(str, i + Len(KwDelete)))
         ELSE 0

NoMatch == [found |-> FALSE, start |-> 0, end |-> 0, tokStart |-> 0, tokEnd |-> 0]

\* position after the optional backtick at p
SkipBacktick(str, p) == IF p <= Len(str) /\ str[p] = Backtick THEN p + 1 ELSE p

\* the match once the token is read: start..end-1 is group(0),
\* tokStart..tokEnd-1 is group(2)
TokenMatch(str, i, ts, te) ==
    [found |-> TRUE, start |-> i, end |-> SkipBacktick(str, te), tokStart |-> ts, tokEnd |-> te]

\* [A-Za-z_][\w]* at ts
MatchToken(str, i, ts) ==
    IF ts <= Len(str) /\ IsIdentStart(str[ts]) THEN TokenMatch(str, i, ts, SkipWord(str, ts))
    ELSE NoMatch

\* \s+ from ke to sp, then the optional backtick
MatchAfterSpaces(str, i, ke, sp) ==
    IF sp > ke THEN MatchToken(str, i, SkipBacktick(str, sp)) ELSE NoMatch

\* the keyword ended at ke (0: no keyword); \b, then the whitespace
MatchAfterKeyword(str, i, ke) ==
    IF ke # 0 /\ WordBoundary(str, ke) THEN MatchAfterSpaces(str, i, ke, SkipSpaces(str, ke))
    ELSE NoMatch

\* the match of _TABLE_POS starting at i
MatchTablePos(str, i) ==
    IF WordBoundary(str, i) THEN MatchAfterKeyword(str, i, KeywordEnd(str, i)) ELSE NoMatch

\* the leftmost match of _TABLE_POS starting at or after pos; m is the match at pos
RECURSIVE FindTablePos(_, _)
FoundOrNext(str, pos, m) == IF m.found THEN m ELSE FindTablePos(str, pos + 1)

FindTablePos(str, pos) ==
    IF pos > Len(str) THEN NoMatch ELSE FoundOrNext(str, pos, MatchTablePos(str, pos))

(***************************************************************************)
(* _ratio: difflib.SequenceMatcher(None, a, b).ratio()                     *)
(***************************************************************************)
\* length of the common run of a from i and b from j, inside a[..ahi], b[..bhi]
RECURSIVE CommonLen(_, _, _, _, _, _)
CommonLen(a, b, i, j, ahi, bhi) ==
    IF i <= ahi /\ j <= bhi /\ a[i] = b[j] THEN 1 + CommonLen(a, b, i + 1, j + 1, ahi, bhi)
    ELSE 0

\* the order of candidate blocks <<i, j, size>>: longer first, then earlier in
\* a, then earlier in b
Better(c, d) ==
    \/ c[3] > d[3]
    \/ c[3] = d[3] /\ c[1] < d[1]
    \/ c[3] = d[3] /\ c[1] = d[1] /\ c[2] <= d[2]

LongestIn(cand) == CHOOSE c \in cand : \A d \in cand : Better(c, d)

\* find_longest_match(alo, ahi, blo, bhi): the longest common block, the one
\* starting earliest in a and then earliest in b among the longest
LongestMatch(a, b, alo, ahi, blo, bhi) ==
    LongestIn({<<i, j, CommonLen(a, b, i, j, ahi, bhi)>> : i \in alo..ahi, j \in blo..bhi})

\* total size of get_matching_blocks() over a[alo..ahi], b[blo..bhi]; m is
\* the longest block there, the blocks left and right of it are counted likewise
RECURSIVE MatchCount(_, _, _, _, _, _)
CountAround(a, b, alo, ahi, blo, bhi, m) ==
    IF m[3] = 0 THEN 0
    ELSE m[3] + MatchCount(a, b, alo, m[1] - 1, blo, m[2] - 1)
              + MatchCount(a, b, m[1] + m[3], ahi, m[2] + m[3], bhi)

MatchCount(a, b, alo, ahi, blo, bhi) ==
    IF alo > ahi \/ blo > bhi THEN 0
    ELSE CountAround(a, b, alo, ahi, blo, bhi, LongestMatch(a, b, alo, ahi, blo, bhi))

\* ratio() as the fraction <<2 * matches, len(a) + len(b)>>; 1.0 for two empty strings
Ratio(a, b) ==
    IF Len(a) + Len(b) = 0 THEN <<1, 1>>
    ELSE <<2 * MatchCount(a, b, 1, Len(a), 1, Len(b)), Len(a) + Len(b)>>

\* comparisons of fractions with positive denominators
RLess(x, y) == x[1] * y[2] < y[1] * x[2]

\* a number of hundredths as a fraction
Pct(n) == <<n, 100>>

\* round(r, 4), in ten-thousandths
Round4(r) == (20000 * r[1] + r[2]) \div (2 * r[2])

(***************************************************************************)
(* _best_table_match and repair_pred_table_names                           *)
(***************************************************************************)
\* min_ratio = 0.86, min_gap = 0.03, the 0.99 of the guard and of the plural
\* rule, in hundredths
MinRatioPct == 86
MinGapPct == 3
NearPerfectPct == 99
PluralPct == 99

\* indices of the tables whose lower-cased name is name
RECURSIVE FirstEqual(_, _, _)
FirstEqual(tables, name, k) ==
    IF k > Len(tables) THEN 0
    ELSE IF LowerStr(tables[k]) = name THEN k
    ELSE FirstEqual(tables, name, k + 1)

\* scored.sort(reverse=True): index of the first table with the highest ratio
RECURSIVE BestIndex(_, _, _)
BestIndex(scores, k, best) ==
    IF k > Len(scores) THEN best
    ELSE IF RLess(scores[best], scores[k]) THEN BestIndex(scores, k + 1, k)
    ELSE BestIndex(scores, k + 1, best)

\* the ratio of the second entry of the sorted list: the highest among the others
RECURSIVE SecondRatio(_, _, _, _)
SecondRatio(scores, k, skip, acc) ==
    IF k > Len(scores) THEN acc
    ELSE IF k # skip /\ RLess(acc, scores[k]) THEN SecondRatio(scores, k + 1, skip, scores[k])
    ELSE SecondRatio(scores, k + 1, skip, acc)

\* the plural loop: index of the first table equal to t without its final s
PluralIndex(tables, t) ==
    IF t[Len(t)] = "s" THEN FirstEqual(tables, SubSeq(t, 1, Len(t) - 1), 1) ELSE 0

\* the ratio of t to every table
Scores(t, tables) == [k \in 1..Len(tables) |-> Ratio(t, LowerStr(tables[k]))]

\* the result of the scored path, b being the index of the best table
Ranked(token, tables, scores, b, minRatio) ==
    [best |-> IF RLess(scores[b], minRatio) THEN token ELSE tables[b],
     ratio |-> scores[b],
     second |-> SecondRatio(scores, 1, b, <<0, 1>>)]

Scored(token, tables, scores, minRatio) ==
    Ranked(token, tables, scores, BestIndex(scores, 2, 1), minRatio)

\* the exact and plural results for the table at index k
ExactMatch(tables, k) == [best |-> tables[k], ratio |-> <<1, 1>>, second |-> <<0, 1>>]

PluralMatch(tables, k) == [best |-> tables[k], ratio |-> Pct(PluralPct), second |-> <<0, 1>>]

\* _best_table_match once t = token.lower() is taken
MatchLower(token, t, tables, minRatio) ==
    IF FirstEqual(tables, t, 1) # 0 THEN ExactMatch(tables, FirstEqual(tables, t, 1))
    ELSE IF PluralIndex(tables, t) # 0 THEN PluralMatch(tables, PluralIndex(tables, t))
    ELSE Scored(token, tables, Scores(t, tables), minRatio)

\* _best_table_match without the plural fast path
BestTableMatch_NoPlural(token, tables, minRatio) ==
    IF FirstEqual(tables, LowerStr(token), 1) # 0
    THEN ExactMatch(tables, FirstEqual(tables, LowerStr(token), 1))
    ELSE Scored(token, tables, Scores(LowerStr(token), tables), minRatio)

\* _best_table_match(token, tables, min_ratio): (best_table, best_ratio, second_best_ratio)
BestTableMatch(token, tables, minRatio) ==
    MatchLower(token, LowerStr(token), tables, minRatio)

\* text.replace(old, new) from position i on: every occurrence, left to right
RECURSIVE StrReplaceFrom(_, _, _, _)
StrReplaceFrom(text, old, new, i) ==
    IF i > Len(text) THEN <<>>
    ELSE IF HasAt(text, i, old) THEN new \o StrReplaceFrom(text, old, new, i + Len(old))
    ELSE <<text[i]>> \o StrReplaceFrom(text, old, new, i + 1)

\* text.replace(old, new)
StrReplace(text, old, new) == StrReplaceFrom(text, old, new, 1)

\* best_r - second_r < min_gap
GapBelow(best, second, minGap) ==
    minGap[2] * (best[1] * second[2] - second[1] * best[2]) < minGap[1] * best[2] * second[2]

\* the decision of repl with the guard written with "or": skip when the gap
\* is small or the ratio is below 0.99
ReplWith_GuardOr(group0, tok, m, minGap) ==
    IF LowerStr(m.best) # LowerStr(tok)
    THEN IF GapBelow(m.ratio, m.second, minGap) \/ RLess(m.ratio, Pct(NearPerfectPct))
         THEN [text |-> group0, changes |-> <<>>]
         ELSE [text |-> StrReplace(group0, tok, m.best),
               changes |-> <<[from |-> tok, to |-> m.best, ratio |-> Round4(m.ratio)]>>]
    ELSE [text |-> StrReplace(group0, tok, m.best), changes |-> <<>>]

\* the decision of repl without the case normalisation of the exact match
ReplWith_KeepCase(group0, tok, m, minGap) ==
    IF LowerStr(m.best) # LowerStr(tok)
    THEN IF GapBelow(m.ratio, m.second, minGap) /\ RLess(m.ratio, Pct(NearPerfectPct))
         THEN [text |-> group0, changes |-> <<>>]
         ELSE [text |-> StrReplace(group0, tok, m.best),
               changes |-> <<[from |-> tok, to |-> m.best, ratio |-> Round4(m.ratio)]>>]
    ELSE [text |-> group0, changes |-> <<>>]

\* the decision of repl, m being what _best_table_match returned: the
\* replacement text and the corrections appended to changes
ReplWith(group0, tok, m, minGap) ==
    IF LowerStr(m.best) # LowerStr(tok)
    THEN IF GapBelow(m.ratio, m.second, minGap) /\ RLess(m.ratio, Pct(NearPerfectPct))
         THEN [text |-> group0, changes |-> <<>>]
         ELSE [text |-> StrReplace(group0, tok, m.best),
               changes |-> <<[from |-> tok, to |-> m.best, ratio |-> Round4(m.ratio)]>>]
    ELSE [text |-> StrReplace(group0, tok, m.best), changes |-> <<>>]

\* repl(m): group0 is m.group(0), tok is m.group(2)
Repl(group0, tok, tables, minRatio, minGap) ==
    ReplWith(group0, tok, BestTableMatch(tok, tables, minRatio), minGap)

\* the text before a match, its replacement, and the rest of the substitution
JoinSub(before, r, rest) ==
    [text |-> before \o r.text \o rest.text, changes |-> r.changes \o rest.changes]

\* _TABLE_POS.sub(repl, chunk) from position pos on; m is the leftmost match
\* at or after pos
RECURSIVE SubTablePos(_, _, _, _, _)
SubMatch(chunk, pos, m, tables, minRatio, minGap) ==
    IF ~m.found THEN [text |-> Suffix(chunk, pos), changes |-> <<>>]
    ELSE JoinSub(SubSeq(chunk, pos, m.start - 1),
                 Repl(SubSeq(chunk, m.start, m.end - 1),
                      SubSeq(chunk, m.tokStart, m.tokEnd - 1), tables, minRatio, minGap),
                 SubTablePos(chunk, m.end, tables, minRatio, minGap))

SubTablePos(chunk, pos, tables, minRatio, minGap) ==
    SubMatch(chunk, pos, FindTablePos(chunk, pos), tables, minRatio, minGap)

\* the repaired text of the k-th part (1-based): the parts at odd positions
\* are outside quotes and go through _TABLE_POS.sub, the others are kept
RepairPart(parts, k, tables, minRatio, minGap) ==
    IF k % 2 = 1 THEN SubTablePos(parts[k], 1, tables, minRatio, minGap)
    ELSE [text |-> parts[k], changes |-> <<>>]

\* "".join(parts) and the corrections, in order
JoinParts(r, rest) ==
    [sql |-> r.text \o rest.sql, changes |-> r.changes \o rest.changes]

\* the loop over parts visiting every part, quoted ones included
RECURSIVE RepairParts_EveryPart(_, _, _, _, _)
RepairParts_EveryPart(parts, k, tables, minRatio, minGap) ==
    IF k > Len(parts) THEN [sql |-> <<>>, changes |-> <<>>]
    ELSE JoinParts(SubTablePos(parts[k], 1, tables, minRatio, minGap),
                   RepairParts_EveryPart(parts, k + 1, tables, minRatio, minGap))

\* the loop over parts
RECURSIVE RepairParts(_, _, _, _, _)
RepairParts(parts, k, tables, minRatio, minGap) ==
    IF k > Len(parts) THEN [sql |-> <<>>, changes |-> <<>>]
    ELSE JoinParts(RepairPart(parts, k, tables, minRatio, minGap),
                   RepairParts(parts, k + 1, tables, minRatio, minGap))

\* repair_pred_table_names(sql, actual_tables, min_ratio, min_gap)
RepairWith(str, tables, minRatio, minGap) ==
    IF str = <<>> \/ tables = <<>> THEN [sql |-> str, changes |-> <<>>]
    ELSE RepairParts(SplitQuoted(str), 1, tables, minRatio, minGap)

\* repair_pred_table_names(sql, actual_tables) with the default thresholds
RepairPredTableNames(str, tables) ==
    RepairWith(str, tables, Pct(MinRatioPct), Pct(MinGapPct))

(***************************************************************************)
(* Specification of the comparator: two queries are executed, then their   *)
(* results are compared                                                    *)
(***************************************************************************)
Builds == {"lenient", "strict"}

NoRepair == [sql |-> <<>>, changes |-> <<>>]

RepIdle ==
    /\ sql = <<>>
    /\ nSegs = 0
    /\ actualTables = <<>>
    /\ repOut = NoRepair
    /\ repOut2 = NoRepair
    /\ repPc = "idle"

InitCompare ==
    /\ result1 = None
    /\ result2 = None
    /\ pandasBuild \in Builds
    /\ cmpOut = "none"
    /\ cmpPc = "start"
    /\ RepIdle
    /\ SelIdle
    /\ FillIdle
    /\ ExtIdle

\* execute_query for the first result: a DataFrame, or None when it failed
ExecuteFirst ==
    /\ cmpPc = "start"
    /\ \E f \in Frames \cup {None} : result1' = f
    /\ cmpPc' = "first"
    /\ UNCHANGED <<result2, pandasBuild, cmpOut, repVars, selVars, fillVars, extVars>>

\* execute_query for the second result
ExecuteSecond ==
    /\ cmpPc = "first"
    /\ \E f \in Frames \cup {None} : result2' = f
    /\ cmpPc' = "ready"
    /\ UNCHANGED <<result1, pandasBuild, cmpOut, repVars, selVars, fillVars, extVars>>

\* compare_results(result1, result2)
Compare ==
    /\ cmpPc = "ready"
    /\ cmpOut' = CompareResults(result1, result2, pandasBuild)
    /\ cmpPc' = "done"
    /\ UNCHANGED <<result1, result2, pandasBuild, repVars, selVars, fillVars, extVars>>

NextCompare == ExecuteFirst \/ ExecuteSecond \/ Compare

SpecCompare == InitCompare /\ [][NextCompare]_vars

(***************************************************************************)
(* Specification of the repairer: a predicted SQL text is composed of      *)
(* segments, repaired against the table list, and repaired once more       *)
(***************************************************************************)
\* the most segments a modelled SQL text is composed of
MaxSegs == 2

\* the pieces predicted SQL is composed of
Segments == {
    <<"f", "r", "o", "m", " ", "d", "a", "t", "e">>,
    <<"F", "R", "O", "M", " ", "d", "a", "t", "e", "s">>,
    <<"u", "p", "d", "a", "t", "e", " ", "p", "d", "a", "t", "e">>,
    <<"j", "o", "i", "n", " ", Backtick, "D", "a", "t", "e", "s", Backtick>>,
    <<"i", "n", "t", "o", " ", " ", "d", "a", "t">>,
    <<"d", "e", "l", "e", "t", "e", "\n", "f", "r", "o", "m", " ", "d", "a", "t", "e", "z">>,
    <<"S", "E", "L", "E", "C", "T", " ", "*", " ", "F", "R", "O", "M", " ", "f", "l", "i", "g", "h", "t", "s">>,
    <<"'", "a", "'", "'", "f", "r", "o", "m", " ", "d", "a", "t", "e", "'">>,
    <<" ", "d", "a", "t", "e">>,
    <<"'">>,
    <<"\"", "f", "r", "o", "m", " ", "d", "a", "t", "e", "\"">> }

\* the actual_tables lists
TableLists == {
    <<>>,
    <<<<"d", "a", "t", "e", "s">>>>,
    <<<<"d", "a", "t", "e">>>>,
    <<<<"D", "a", "t", "e", "s">>, <<"d", "a", "t", "e">>>>,
    <<<<"d", "a", "t", "e", "s">>, <<"d", "a", "t", "e", "d">>>>,
    <<<<"u", "p", "d", "a", "t", "e">>, <<"d", "a", "t", "e", "s">>>>,
    <<<<"f", "l", "i", "g", "h", "t">>, <<"a", "i", "r", "p", "o", "r", "t">>>> }

InitRepair ==
    /\ sql = <<>>
    /\ nSegs = 0
    /\ actualTables \in TableLists
    /\ repOut = NoRepair
    /\ repOut2 = NoRepair
    /\ repPc = "compose"
    /\ result1 = None
    /\ result2 = None
    /\ pandasBuild = "lenient"
    /\ cmpOut = "none"
    /\ cmpPc = "idle"
    /\ SelIdle
    /\ FillIdle
    /\ ExtIdle

\* the model writes one more piece of its SQL
AppendSegment ==
    /\ repPc = "compose"
    /\ nSegs < MaxSegs
    /\ \E seg \in Segments : sql' = sql \o seg
    /\ nSegs' = nSegs + 1
    /\ UNCHANGED <<actualTables, repOut, repOut2, repPc, cmpVars, selVars, fillVars, extVars>>

\* pred_sql, pred_repairs = repair_pred_table_names(pred_sql, schema_tables)
Repair ==
    /\ repPc = "compose"
    /\ repOut' = RepairPredTableNames(sql, actualTables)
    /\ repPc' = "once"
    /\ UNCHANGED <<sql, nSegs, actualTables, repOut2, cmpVars, selVars, fillVars, extVars>>

\* repair_pred_table_names applied to its own output
RepairAgain ==
    /\ repPc = "once"
    /\ repOut2' = RepairPredTableNames(repOut.sql, actualTables)
    /\ repPc' = "twice"
    /\ UNCHANGED <<sql, nSegs, actualTables, repOut, cmpVars, selVars, fillVars, extVars>>

NextRepair == AppendSegment \/ Repair \/ RepairAgain

SpecRepair == InitRepair /\ [][NextRepair]_vars

(***************************************************************************)
(* Identifier tokenizer: _split_ident, _stem, _normalize_tokens            *)
(***************************************************************************)
AsciiDigits == <<"0", "1", "2", "3", "4", "5", "6", "7", "8", "9">>
AsciiUpper == <<"A", "B", "C", "D", "E", "F", "G", "H", "I", "J", "K", "L",
                "M", "N", "O", "P", "Q", "R", "S", "T", "U", "V", "W", "X", "Y", "Z">>
AsciiLower == <<"a", "b", "c", "d", "e", "f", "g", "h", "i", "j", "k", "l",
                "m", "n", "o", "p", "q", "r", "s", "t", "u", "v", "w", "x", "y", "z">>

DigitChars == Range(AsciiDigits)
UpperChars == Range(AsciiUpper)
LowerChars == Range(AsciiLower)

IsDigit(c) == c \in DigitChars
IsUpper(c) == c \in UpperChars
IsLower(c) == c \in LowerChars
IsAlnum(c) == IsDigit(c) \/ IsUpper(c) \/ IsLower(c)

\* position of c in seq
IndexIn(seq, c) == CHOOSE k \in 1..Len(seq) : seq[k] = c

\* str.lower() of one character and of a string, over the whole alphabet
CharLower(c) == IF IsUpper(c) THEN AsciiLower[IndexIn(AsciiUpper, c)] ELSE c

ToLower(str) == [k \in 1..Len(str) |-> CharLower(str[k])]

\* s.replace("_", " ")
ReplaceUnderscores(s) == [k \in 1..Len(s) |-> IF s[k] = "_" THEN " " ELSE s[k]]

\* re.sub(r"([a-z])([A-Z])", r"\1 \2", s) from position i on
RECURSIVE SpaceCamel(_, _)
SpaceCamel(s, i) ==
    IF i > Len(s) THEN <<>>
    ELSE IF i < Len(s) /\ IsLower(s[i]) /\ IsUpper(s[i + 1])
         THEN <<s[i], " ", s[i + 1]>> \o SpaceCamel(s, i + 2)
    ELSE <<s[i]>> \o SpaceCamel(s, i + 1)

\* re.sub(r"(\D)(\d)", r"\1 \2", s) from position i on
RECURSIVE SpaceBeforeDigit(_, _)
SpaceBeforeDigit(s, i) ==
    IF i > Len(s) THEN <<>>
    ELSE IF i < Len(s) /\ ~IsDigit(s[i]) /\ IsDigit(s[i + 1])
         THEN <<s[i], " ", s[i + 1]>> \o SpaceBeforeDigit(s, i + 2)
    ELSE <<s[i]>> \o SpaceBeforeDigit(s, i + 1)

\* re.sub(r"(\d)(\D)", r"\1 \2", s) from position i on
RECURSIVE SpaceAfterDigit(_, _)
SpaceAfterDigit(s, i) ==
    IF i > Len(s) THEN <<>>
    ELSE IF i < Len(s) /\ IsDigit(s[i]) /\ ~IsDigit(s[i + 1])
         THEN <<s[i], " ", s[i + 1]>> \o SpaceAfterDigit(s, i + 2)
    ELSE <<s[i]>> \o SpaceAfterDigit(s, i + 1)

\* position after the run of alphanumeric characters starting at p
RECURSIVE SkipAlnum(_, _)
SkipAlnum(s, p) == IF p <= Len(s) /\ IsAlnum(s[p]) THEN SkipAlnum(s, p + 1) ELSE p

\* re.findall(r"[A-Za-z0-9]+", s) from position i on; e is the end of the run at i
RECURSIVE AlnumRuns(_, _)
RunThenRest(s, i, e) == <<SubSeq(s, i, e - 1)>> \o AlnumRuns(s, e)

AlnumRuns(s, i) ==
    IF i > Len(s) THEN <<>>
    ELSE IF IsAlnum(s[i]) THEN RunThenRest(s, i, SkipAlnum(s, i))
    ELSE AlnumRuns(s, i + 1)

\* _split_ident(s)
SplitIdent(s) ==
    AlnumRuns(SpaceAfterDigit(SpaceBeforeDigit(SpaceCamel(ReplaceUnderscores(s), 1), 1), 1), 1)

\* tok.endswith(suffix)
HasSuffix(tok, suffix) ==
    /\ Len(suffix) <= Len(tok)
    /\ SubSeq(tok, Len(tok) - Len(suffix) + 1, Len(tok)) = suffix

\* tok[:-n]
DropLast(tok, n) == SubSeq(tok, 1, Len(tok) - n)

\* _stem(tok)
Stem(tok) ==
    IF Len(tok) > 4 /\ HasSuffix(tok, <<"i", "n", "g">>) THEN DropLast(tok, 3)
    ELSE IF Len(tok) > 3 /\ HasSuffix(tok, <<"e", "d">>) THEN DropLast(tok, 2)
    ELSE IF Len(tok) > 3 /\ HasSuffix(tok, <<"e", "s">>) THEN DropLast(tok, 2)
    ELSE IF Len(tok) > 2 /\ HasSuffix(tok, <<"s">>) THEN DropLast(tok, 1)
    ELSE tok

STOPWORDS == {
    <<"a">>, <<"a", "n">>, <<"t", "h", "e">>, <<"a", "l", "l">>, <<"a", "n", "y">>,
    <<"f", "r", "o", "m">>, <<"t", "o">>, <<"o", "f">>, <<"i", "n">>, <<"o", "n">>,
    <<"a", "t">>, <<"f", "o", "r">>, <<"w", "i", "t", "h">>, <<"a", "n", "d">>, <<"o", "r">>,
    <<"i", "s">>, <<"a", "r", "e">>, <<"w", "a", "s">>, <<"w", "e", "r", "e">>, <<"b", "e">>,
    <<"b", "e", "e", "n">>, <<"d", "o">>, <<"d", "o", "e", "s">>, <<"d", "i", "d">>,
    <<"l", "i", "s", "t">>, <<"s", "h", "o", "w">>, <<"g", "i", "v", "e">>, <<"g", "e", "t">>,
    <<"f", "i", "n", "d">>, <<"w", "h", "a", "t">>, <<"w", "h", "i", "c", "h">>,
    <<"w", "h", "o">>, <<"w", "h", "e", "r", "e">>, <<"w", "h", "e", "n">>, <<"h", "o", "w">>,
    <<"m", "a", "n", "y">>, <<"m", "u", "c", "h">> }

NotStopword(tok) == tok \notin STOPWORDS

\* the stems of a sequence of raw tokens
StemAll(toks) == [k \in 1..Len(toks) |-> Stem(toks[k])]

\* _normalize_tokens(text)
NormalizeTokens(text) == StemAll(SelectSeq(SplitIdent(ToLower(text)), NotStopword))

\* the stemmed lower-cased tokens of an identifier: {_stem(x.lower()) for x in _split_ident(s)}
IdentTokens(s) == {Stem(ToLower(x)) : x \in Range(SplitIdent(s))}

(***************************************************************************)
(* Schema relevance ranker: _rank_tables_for_question and _select_tables   *)
(***************************************************************************)
\* table_weight = 3.0, col_weight = 1.0, fuzzy_weight = 0.25 = 1 / FuzzyWeightInverse
TableWeight == 3
ColWeight == 1
FuzzyWeightInverse == 4

\* ord(c) for the characters of identifiers
CharCode(c) ==
    IF IsDigit(c) THEN 47 + IndexIn(AsciiDigits, c)
    ELSE IF IsUpper(c) THEN 64 + IndexIn(AsciiUpper, c)
    ELSE IF c = "_" THEN 95
    ELSE IF IsLower(c) THEN 96 + IndexIn(AsciiLower, c)
    ELSE 32

\* a < b for strings, comparing from position i on
RECURSIVE StrLessFrom(_, _, _)
StrLessFrom(a, b, i) ==
    IF i > Len(b) THEN FALSE
    ELSE IF i > Len(a) THEN TRUE
    ELSE IF a[i] # b[i] THEN CharCode(a[i]) < CharCode(b[i])
    ELSE StrLessFrom(a, b, i + 1)

StrLess(a, b) == StrLessFrom(a, b, 1)

\* sorted(names) of a set of strings
MinName(names) == CHOOSE x \in names : \A y \in names \ {x} : StrLess(x, y)

RECURSIVE SortedNames(_)
MinThenRest(names, least) == <<least>> \o SortedNames(names \ {least})

SortedNames(names) == IF names = {} THEN <<>> ELSE MinThenRest(names, MinName(names))

RECURSIVE GCD(_, _)
GCD(a, b) == IF b = 0 THEN a ELSE GCD(b, a % b)

\* a fraction in lowest terms: the same number has the same representation
Reduced(n, d) == <<n \div GCD(n, d), d \div GCD(n, d)>>

\* the largest of a non-empty set of fractions
MaxRatio(ratios) == CHOOSE r \in ratios : \A x \in ratios : ~RLess(r, x)

\* best_fuzzy: the largest ratio of a question token to a table token, 0.0 when there is none
BestFuzzy(qTokens, tTokens) ==
    MaxRatio({<<0, 1>>} \cup {Ratio(qTokens[k], tt) : k \in 1..Len(qTokens), tt \in tTokens})

\* the column tokens of a table
ColTokens(cols) == UNION {IdentTokens(cols[k]) : k \in 1..Len(cols)}

\* hits + fuzzy_weight * best_fuzzy as a fraction
PlusFuzzy(hits, fuzzy) ==
    Reduced(hits * FuzzyWeightInverse * fuzzy[2] + fuzzy[1], FuzzyWeightInverse * fuzzy[2])

\* the score with a table-name hit weighing no more than a column hit
TableScore_EqualWeights(qTokens, table) ==
    PlusFuzzy(ColWeight * Cardinality(Range(qTokens) \cap IdentTokens(table.name))
                + ColWeight * Cardinality(Range(qTokens) \cap ColTokens(table.cols)),
              BestFuzzy(qTokens, IdentTokens(table.name)))

\* the score of one table, qTokens being the tokens of the question
TableScore(qTokens, table) ==
    PlusFuzzy(TableWeight * Cardinality(Range(qTokens) \cap IdentTokens(table.name))
                + ColWeight * Cardinality(Range(qTokens) \cap ColTokens(table.cols)),
              BestFuzzy(qTokens, IdentTokens(table.name)))

\* the list ranked before it is sorted, in the iteration order of schema_map
RankEntries(qTokens, schema) ==
    [k \in 1..Len(schema) |->
        [name |-> schema[k].name, score |-> TableScore(qTokens, schema[k])]]

\* the sort key (-score, name): whether a goes before b
RankBefore(a, b) ==
    \/ RLess(b.score, a.score)
    \/ a.score = b.score /\ StrLess(a.name, b.name)

\* ranked.sort(key=...): a stable insertion
RECURSIVE InsertRanked(_, _)
InsertRanked(sorted, e) ==
    IF sorted = <<>> THEN <<e>>
    ELSE IF RankBefore(e, Head(sorted)) THEN <<e>> \o sorted
    ELSE <<Head(sorted)>> \o InsertRanked(Tail(sorted), e)

RECURSIVE SortRanked(_, _)
SortRanked(entries, n) ==
    IF n = 0 THEN <<>> ELSE InsertRanked(SortRanked(entries, n - 1), entries[n])

\* the ranking with the sort left out: the iteration order of schema_map
RankTablesForQuestion_Unsorted(q, schema) ==
    RankEntries(NormalizeTokens(q), schema)

\* _rank_tables_for_question(question, schema_map) with the default weights
RankTablesForQuestion(q, schema) ==
    SortRanked(RankEntries(NormalizeTokens(q), schema), Len(schema))

\* seq[:n] for a list: for a negative n the last -n entries are dropped
Slice(seq, n) ==
    IF n >= Len(seq) THEN seq
    ELSE IF n >= 0 THEN SubSeq(seq, 1, n)
    ELSE IF Len(seq) + n > 0 THEN SubSeq(seq, 1, Len(seq) + n)
    ELSE <<>>

\* a filter that keeps only entries with a table-name hit
PositiveScore_NameHit(e) == e.score[1] >= TableWeight * e.score[2]

\* the filter score > 0 of line 426
PositiveScore(e) == e.score[1] > 0

NamesOf(entries) == [k \in 1..Len(entries) |-> entries[k].name]

SchemaKeys(schema) == {schema[k].name : k \in 1..Len(schema)}

\* [t for (t, s) in ranked if s > 0][:max_tables]
RankedSelection(rankedList, max) == Slice(NamesOf(SelectSeq(rankedList, PositiveScore)), max)

\* the fallback: sorted(schema_map.keys())[:max_tables] when nothing was selected
OrFallback(sel, schema, max) ==
    IF sel = <<>> THEN Slice(SortedNames(SchemaKeys(schema)), max) ELSE sel

\* no foreign-key graph, and fk_graph as a dict from names to sets of names
NoGraph == [none |-> TRUE]

Graph(adj) == [none |-> FALSE, adj |-> adj]

\* bool(fk_graph): None and the empty dict are false
GraphGiven(fk) == ~fk.none /\ DOMAIN fk.adj # {}

\* fk_graph.get(t, set())
Neighbours(fk, t) == IF t \in DOMAIN fk.adj THEN fk.adj[t] ELSE {}

\* the inner loop without the test of the budget
RECURSIVE AddNeighbours_NoBudget(_, _, _, _)
AddNeighbours_NoBudget(nbs, j, sel, max) ==
    IF j > Len(nbs) THEN sel
    ELSE IF nbs[j] \in Range(sel) THEN AddNeighbours_NoBudget(nbs, j + 1, sel, max)
    ELSE AddNeighbours_NoBudget(nbs, j + 1, Append(sel, nbs[j]), max)

\* the inner loop over sorted(fk_graph.get(t, set())) from its j-th entry on
RECURSIVE AddNeighbours(_, _, _, _)
AddNeighbours(nbs, j, sel, max) ==
    IF j > Len(nbs) THEN sel
    ELSE IF nbs[j] \in Range(sel) THEN AddNeighbours(nbs, j + 1, sel, max)
    ELSE IF Len(sel) + 1 >= max THEN Append(sel, nbs[j])
    ELSE AddNeighbours(nbs, j + 1, Append(sel, nbs[j]), max)

\* the outer loop over base from its i-th entry on; sel is the selection
\* after the inner loop of base[i]
RECURSIVE ExpandOver(_, _, _, _, _)
NextSource(base, i, fk, sel, max) ==
    IF Len(sel) >= max THEN sel ELSE ExpandOver(base, i + 1, fk, sel, max)

ExpandOver(base, i, fk, sel, max) ==
    IF i > Len(base) THEN sel
    ELSE NextSource(base, i, fk,
                    AddNeighbours(SortedNames(Neighbours(fk, base[i])), 1, sel, max), max)

\* the expansion step that follows neighbours of added tables too
Expand_Transitive(sel, fk, add, max) ==
    IF GraphGiven(fk) /\ add /\ Len(sel) < max
    THEN ExpandOver(ExpandOver(sel, 1, fk, sel, max), 1, fk, ExpandOver(sel, 1, fk, sel, max), max)
    ELSE sel

\* the optional 1-hop expansion of the selection sel
Expand(sel, fk, add, max) ==
    IF GraphGiven(fk) /\ add /\ Len(sel) < max THEN ExpandOver(sel, 1, fk, sel, max) ELSE sel

\* _select_tables once ranked is computed
SelectFromRanked(rankedList, schema, max, fk, add) ==
    Expand(OrFallback(RankedSelection(rankedList, max), schema, max), fk, add, max)

\* _select_tables(question, schema_map, max_tables, fk_graph, add_neighbors)
SelectTables(q, schema, max, fk, add) ==
    SelectFromRanked(RankTablesForQuestion(q, schema), schema, max, fk, add)

(***************************************************************************)
(* Specification of the table selector: the schema map is filled table by  *)
(* table in introspection order, then tables are selected for a question   *)
(***************************************************************************)
\* the largest max_tables and the most tables of a schema
MaxBudget == 3
MaxSchemaTables == 3

Student == <<"s", "t", "u", "d", "e", "n", "t">>
Course == <<"c", "o", "u", "r", "s", "e">>
Enrollment == <<"e", "n", "r", "o", "l", "l", "m", "e", "n", "t">>
Teacher == <<"t", "e", "a", "c", "h", "e", "r">>

\* the tables a database may hold, with their columns
TablePool == {
    [name |-> Student, cols |-> <<<<"i", "d">>, <<"n", "a", "m", "e">>, <<"a", "g", "e">>>>],
    [name |-> Course, cols |-> <<<<"i", "d">>, <<"t", "i", "t", "l", "e">>>>],
    [name |-> Enrollment, cols |-> <<<<"s", "t", "u", "d", "e", "n", "t", "_", "i", "d">>, <<"c", "o", "u", "r", "s", "e", "_", "i", "d">>>>],
    [name |-> <<"C", "o", "u", "r", "s", "e">>, cols |-> <<<<"c", "o", "u", "r", "s", "e", "I", "d">>>>] }

Questions == {
    <<"H", "o", "w", " ", "m", "a", "n", "y", " ", "s", "t", "u", "d", "e", "n", "t", "s", " ", "a", "r", "e", " ", "t", "h", "e", "r", "e", "?">>,
    <<"H", "o", "w", " ", "m", "a", "n", "y", "?">>,
    <<"s", "t", "u", "d", "e", "n", "t", " ", "c", "o", "u", "r", "s", "e">>,
    <<"p", "q">> }

\* no graph, the empty graph, the graph of the enrollment foreign keys, and
\* a graph with a self-reference and a table outside the schema map
FkGraphs == {
    NoGraph,
    Graph(<<>>),
    Graph([t \in {Student, Course, Enrollment} |->
              IF t = Enrollment THEN {Student, Course} ELSE {Enrollment}]),
    Graph([t \in {Student, Teacher} |-> IF t = Student THEN {Student, Teacher} ELSE {Student}]) }

InitSelect ==
    /\ question \in Questions
    /\ schemaMap = <<>>
    /\ fkGraph \in FkGraphs
    /\ maxTables \in 0..MaxBudget
    /\ addNeighbors \in BOOLEAN
    /\ ranked = <<>>
    /\ selected = <<>>
    /\ selPc = "introspect"
    /\ result1 = None
    /\ result2 = None
    /\ pandasBuild = "lenient"
    /\ cmpOut = "none"
    /\ cmpPc = "idle"
    /\ RepIdle
    /\ FillIdle
    /\ ExtIdle

\* get_schema_map: schema_map[t] = [c["name"] for c in cols] for one more table
AddTable ==
    /\ selPc = "introspect"
    /\ Len(schemaMap) < MaxSchemaTables
    /\ \E t \in TablePool :
          /\ t.name \notin SchemaKeys(schemaMap)
          /\ schemaMap' = Append(schemaMap, t)
    /\ UNCHANGED <<question, fkGraph, maxTables, addNeighbors, ranked, selected, selPc,
                   cmpVars, repVars, fillVars, extVars>>

\* _select_tables(question, schema_map, max_tables, fk_graph, add_neighbors)
Select ==
    /\ selPc = "introspect"
    /\ ranked' = RankTablesForQuestion(question, schemaMap)
    /\ selected' = SelectFromRanked(ranked', schemaMap, maxTables, fkGraph, addNeighbors)
    /\ selPc' = "selected"
    /\ UNCHANGED <<question, schemaMap, fkGraph, maxTables, addNeighbors,
                   cmpVars, repVars, fillVars, extVars>>

NextSelect == AddTable \/ Select

SpecSelect == InitSelect /\ [][NextSelect]_vars

(***************************************************************************)
(* Gold-SQL filler: fill_gold_sql of scripts/sql_utils.py.  A value is     *)
(* [null |-> TRUE] for None and [null |-> FALSE, text |-> str(value)]      *)
(* otherwise.  An outcome is [raised, sql].                                *)
(***************************************************************************)
Null == [null |-> TRUE]

Text(chars) == [null |-> FALSE, text |-> chars]

Returned(chars) == [raised |-> FALSE, sql |-> chars]

Raised == [raised |-> TRUE, sql |-> <<>>]

\* the value of repl[i], or that of the entry variable e when it has the
\* same name
Overridden(r, e) == IF r.name = e.name THEN [name |-> r.name, value |-> e.example] ELSE r

\* a merge in which the entry-level example wins over the question's value
RECURSIVE MergeEntryVars_EntryWins(_, _, _)
MergeEntryVars_EntryWins(repl, evars, k) ==
    IF k > Len(evars) THEN repl
    ELSE IF evars[k].name # <<>> /\ evars[k].name \notin {repl[i].name : i \in 1..Len(repl)}
         THEN MergeEntryVars_EntryWins(
                  Append(repl, [name |-> evars[k].name, value |-> evars[k].example]),
                  evars, k + 1)
         ELSE MergeEntryVars_EntryWins(
                  [i \in 1..Len(repl) |-> Overridden(repl[i], evars[k])], evars, k + 1)

\* replacements after replacements.update(sent_vars) and the loop over
\* entry["variables"] from its k-th entry on: a dict in insertion order
RECURSIVE MergeEntryVars(_, _, _)
MergeEntryVars(repl, evars, k) ==
    IF k > Len(evars) THEN repl
    ELSE IF evars[k].name # <<>> /\ evars[k].name \notin {repl[i].name : i \in 1..Len(repl)}
         THEN MergeEntryVars(Append(repl, [name |-> evars[k].name, value |-> evars[k].example]),
                             evars, k + 1)
         ELSE MergeEntryVars(repl, evars, k + 1)

Replacements(svars, evars) == MergeEntryVars(svars, evars, 1)

\* sorted(replacements.keys(), key=len, reverse=True): stable, so names of
\* equal length keep their insertion order
RECURSIVE InsertByLen(_, _)
InsertByLen(sorted, e) ==
    IF sorted = <<>> THEN <<e>>
    ELSE IF Len(Head(sorted).name) < Len(e.name) THEN <<e>> \o sorted
    ELSE <<Head(sorted)>> \o InsertByLen(Tail(sorted), e)

RECURSIVE LongestFirst(_, _)
LongestFirst(repl, n) ==
    IF n = 0 THEN <<>> ELSE InsertByLen(LongestFirst(repl, n - 1), repl[n])

\* the class [A-Za-z0-9_] of the lookbehind and the lookahead
IsTokenChar(c) == IsAlnum(c) \/ c = "_"

\* the pattern (?<![A-Za-z0-9_])name(?![A-Za-z0-9_]) matches at position p
TokenAt(text, p, name) ==
    /\ HasAt(text, p, name)
    /\ p = 1 \/ ~IsTokenChar(text[p - 1])
    /\ p + Len(name) > Len(text) \/ ~IsTokenChar(text[p + Len(name)])

\* pattern.sub over text from position p on, ins being the expanded
\* replacement; a match found without the lookbehind counts in the mutant
RECURSIVE SubTokens_NoLookbehind(_, _, _, _)
SubTokens_NoLookbehind(text, p, name, ins) ==
    IF p > Len(text) THEN <<>>
    ELSE IF /\ HasAt(text, p, name)
            /\ p + Len(name) > Len(text) \/ ~IsTokenChar(text[p + Len(name)])
         THEN ins \o SubTokens_NoLookbehind(text, p + Len(name), name, ins)
         ELSE <<text[p]>> \o SubTokens_NoLookbehind(text, p + 1, name, ins)

RECURSIVE SubTokens(_, _, _, _)
SubTokens(text, p, name, ins) ==
    IF p > Len(text) THEN <<>>
    ELSE IF TokenAt(text, p, name)
         THEN ins \o SubTokens(text, p + Len(name), name, ins)
         ELSE <<text[p]>> \o SubTokens(text, p + 1, name, ins)

\* the characters the replacement template gives for backslash + letter
EscapeLetters == <<"a", "b", "f", "n", "r", "t", "v">>

EscapeValues == <<"BEL", "BS", "\f", "\n", "\r", "\t", "VT">>

\* chars put before the rest of an expanded template
Before(chars, rest) == IF rest.raised THEN Raised ELSE Returned(chars \o rest.sql)

\* str(value) read as a replacement template by pattern.sub: the template
\* from position i on; name is the text of the match (group 0)
RECURSIVE ExpandTemplate(_, _, _)
Escape(v, i, name) ==
    IF i > Len(v) THEN Raised
    ELSE IF v[i] = "\\" THEN Before(<<"\\">>, ExpandTemplate(v, i + 1, name))
    ELSE IF v[i] \in Range(EscapeLetters)
         THEN Before(<<EscapeValues[IndexIn(EscapeLetters, v[i])]>>, ExpandTemplate(v, i + 1, name))
    ELSE IF v[i] = "g"
         THEN IF HasAt(v, i + 1, <<"<", "0", ">">>) THEN Before(name, ExpandTemplate(v, i + 4, name))
              ELSE Raised
    ELSE IF v[i] = "0" THEN Before(<<"NUL">>, ExpandTemplate(v, i + 1, name))
    ELSE IF IsAlnum(v[i]) THEN Raised
    ELSE Before(<<"\\", v[i]>>, ExpandTemplate(v, i + 1, name))

ExpandTemplate(v, i, name) ==
    IF i > Len(v) THEN Returned(<<>>)
    ELSE IF v[i] = "\\" THEN Escape(v, i + 1, name)
    ELSE Before(<<v[i]>>, ExpandTemplate(v, i + 1, name))

\* the loop of lines 145-154 from the k-th name on
RECURSIVE FillFrom(_, _, _)
Substitute(text, names, k, ins) ==
    IF ins.raised THEN Raised
    ELSE FillFrom(SubTokens(text, 1, names[k].name, ins.sql), names, k + 1)

FillFrom(text, names, k) ==
    IF k > Len(names) THEN Returned(text)
    ELSE IF names[k].value.null THEN FillFrom(text, names, k + 1)
    ELSE Substitute(text, names, k, ExpandTemplate(names[k].value.text, 1, names[k].name))

FillWith(text, repl) ==
    IF repl = <<>> THEN Returned(text) ELSE FillFrom(text, LongestFirst(repl, Len(repl)), 1)

\* fill_gold_sql(entry, sentence)
FillGoldSql(sqls, svars, evars) ==
    IF sqls = <<>> THEN Returned(<<>>) ELSE FillWith(sqls[1], Replacements(svars, evars))

(***************************************************************************)
(* Specification of the filler: an entry with its SQL variants, variables  *)
(* added to the sentence and to the entry, then one call.                  *)
(***************************************************************************)
MaxVars == 2

V1 == <<"v", "1">>
V10 == <<"v", "1", "0">>
Ab == <<"a", "b">>

VarNames == {V1, V10, Ab}

\* None, a plain value, a value with a quote, values that are names of
\* variables, a value with an escaped backslash and one with backslash d
VarValues == {Null, Text(<<"M", "K", "E">>), Text(<<"i", "t", "'", "s">>), Text(V1), Text(Ab), Text(<<"a", "\\", "\\", "b">>), Text(<<"C", ":", "\\", "d">>)}

SqlLists == {
    <<>>,
    <<<<"x", " ", "=", " ", "\"", "v", "1", "\"", " ", "A", "N", "D", " ", "v", "1", "0", " ", "<", " ", "v", "1", "_", "a">>>>,
    <<<<"a", "b", " ", "v", "1">>, <<"v", "1", "0">>>>,
    <<<<"S", "E", "L", "E", "C", "T", " ", "1">>>> }

InitFill ==
    /\ sqlList \in SqlLists
    /\ sentVars = <<>>
    /\ entryVars = <<>>
    /\ fillOut = Returned(<<>>)
    /\ fillPc = "collect"
    /\ result1 = None
    /\ result2 = None
    /\ pandasBuild = "lenient"
    /\ cmpOut = "none"
    /\ cmpPc = "idle"
    /\ RepIdle
    /\ SelIdle
    /\ ExtIdle

\* one more key of sentence["variables"]
AddSentVar ==
    /\ fillPc = "collect"
    /\ Len(sentVars) + Len(entryVars) < MaxVars
    /\ \E n \in VarNames : \E v \in VarValues :
          /\ n \notin {sentVars[i].name : i \in 1..Len(sentVars)}
          /\ sentVars' = Append(sentVars, [name |-> n, value |-> v])
    /\ UNCHANGED <<sqlList, entryVars, fillOut, fillPc, cmpVars, repVars, selVars, extVars>>

\* one more element of entry["variables"]; the empty name stands for a
\* missing one
AddEntryVar ==
    /\ fillPc = "collect"
    /\ Len(sentVars) + Len(entryVars) < MaxVars
    /\ \E n \in VarNames \cup {<<>>} : \E v \in VarValues :
          entryVars' = Append(entryVars, [name |-> n, example |-> v])
    /\ UNCHANGED <<sqlList, sentVars, fillOut, fillPc, cmpVars, repVars, selVars, extVars>>

\* fill_gold_sql(entry, sentence)
Fill ==
    /\ fillPc = "collect"
    /\ fillOut' = FillGoldSql(sqlList, sentVars, entryVars)
    /\ fillPc' = "filled"
    /\ UNCHANGED <<sqlList, sentVars, entryVars, cmpVars, repVars, selVars, extVars>>

NextFill == AddSentVar \/ AddEntryVar \/ Fill

SpecFill == InitFill /\ [][NextFill]_vars

(***************************************************************************)
(* Case normaliser: normalize_pred_sql of scripts/sql_utils.py.  Table     *)
(* names are identifiers (letters, digits, underscore), so the pattern     *)
(* \btable\b is the name between two word boundaries.                      *)
(***************************************************************************)
\* the pattern \btable\b with re.IGNORECASE matches text at position p
WholeWordAt(text, p, table) ==
    /\ p + Len(table) - 1 <= Len(text)
    /\ \A k \in 1..Len(table) : CharLower(text[p + k - 1]) = CharLower(table[k])
    /\ p = 1 \/ ~IsTokenChar(text[p - 1])
    /\ p + Len(table) > Len(text) \/ ~IsTokenChar(text[p + Len(table)])

\* pattern.sub(table, text) from position p on
RECURSIVE SubTable(_, _, _)
SubTable(text, p, table) ==
    IF p > Len(text) THEN <<>>
    ELSE IF WholeWordAt(text, p, table)
         THEN table \o SubTable(text, p + Len(table), table)
         ELSE <<text[p]>> \o SubTable(text, p + 1, table)

\* the loop over schema_tables from its k-th name on
RECURSIVE NormalizeTables(_, _, _)
NormalizeTables(text, tables, k) ==
    IF k > Len(tables) THEN text
    ELSE NormalizeTables(SubTable(text, 1, tables[k]), tables, k + 1)

\* whitespace as str.strip() sees it
IsBlank(c) == c \in {" ", "\t", "\n", "\r", "\f"}

RECURSIVE StripLeft(_)
StripLeft(text) ==
    IF text # <<>> /\ IsBlank(Head(text)) THEN StripLeft(Tail(text)) ELSE text

RECURSIVE StripRight(_)
StripRight(text) ==
    IF text # <<>> /\ IsBlank(text[Len(text)])
    THEN StripRight(SubSeq(text, 1, Len(text) - 1))
    ELSE text

\* str.strip()
Strip(text) == StripRight(StripLeft(text))

\* normalize_pred_sql(pred_sql, schema_tables)
NormalizePredSql(sqlText, tables) ==
    IF sqlText = <<>> THEN sqlText ELSE Strip(NormalizeTables(sqlText, tables, 1))

(***************************************************************************)
(* Specification of the normaliser: a predicted SQL composed of pieces,    *)
(* a list of schema tables, one call.                                      *)
(***************************************************************************)
MaxPieces == 3

NormPieces == {
    <<" ">>, <<"s", "e", "l", "e", "c", "t", " ", "*", " ", "f", "r", "o", "m", " ">>, <<"D", "A", "T", "E">>, <<"d", "a", "t", "e">>, <<"D", "a", "t", "e", "s">>, <<"a", ".", "d", "a", "t", "e">>, <<"'", "D", "a", "t", "e", "'">>, <<"u", "p", "d", "a", "t", "e", "_", "d", "a", "t", "e">>,
    <<"\n">> }

NormTableLists == {<<>>, <<<<"D", "a", "t", "e">>>>, <<<<"d", "a", "t", "e">>, <<"F", "l", "i", "g", "h", "t">>>>, <<<<"D", "a", "t", "e">>, <<"d", "a", "t", "e">>>>}

\* the components of the earlier sections at rest
BaseIdle ==
    /\ result1 = None
    /\ result2 = None
    /\ pandasBuild = "lenient"
    /\ cmpOut = "none"
    /\ cmpPc = "idle"
    /\ RepIdle
    /\ SelIdle
    /\ FillIdle

InitNormalize ==
    /\ predSql = <<>>
    /\ schemaTables \in NormTableLists
    /\ nPieces = 0
    /\ normOut = <<>>
    /\ normPc = "compose"
    /\ BaseIdle
    /\ DbIdle /\ TokIdle /\ PromptIdle

\* the model's output grows by one piece
AppendPiece ==
    /\ normPc = "compose"
    /\ nPieces < MaxPieces
    /\ \E piece \in NormPieces : predSql' = predSql \o piece
    /\ nPieces' = nPieces + 1
    /\ UNCHANGED <<schemaTables, normOut, normPc, exceptNormVars>>

\* normalize_pred_sql(pred_sql_raw, schema_tables)
Normalize ==
    /\ normPc = "compose"
    /\ normOut' = NormalizePredSql(predSql, schemaTables)
    /\ normPc' = "normalized"
    /\ UNCHANGED <<predSql, schemaTables, nPieces, exceptNormVars>>

NextNormalize == AppendPiece \/ Normalize

SpecNormalize == InitNormalize /\ [][NextNormalize]_vars


(***************************************************************************)
(* DatabaseManager: the engine, the two caches and the introspection of    *)
(* database/db_manager.py.  A database schema is [tables, fks]: tables a   *)
(* sequence of [name, cols] in the order of inspector.get_table_names(),   *)
(* fks a mapping from each table to the sequence of the referred_table     *)
(* entries of inspector.get_foreign_keys(table).                           *)
(***************************************************************************)
\* database=None
NoDb == "None"

\* the database of the connection URL when no database is named
DefaultDb == "text2sql_db"

\* get_engine(db_type, database): the database the engine connects to
EngineFor(db) == IF db = NoDb THEN DefaultDb ELSE db

\* db_key = self.database or ""
DbKey(db) == IF db = NoDb THEN "" ELSE db

\* switch_database: the engine after the call, old being the engine before
EngineAfterSwitch_Kept(db, old) == old

EngineAfterSwitch(db, old) == EngineFor(db)

\* get_schema_map: the inspection of the connected database
IntrospectSchemaMap(dbSchema) == dbSchema.tables

TableNames(dbSchema) == {dbSchema.tables[k].name : k \in 1..Len(dbSchema.tables)}

\* if t in graph: graph[t].add(ref); if ref in graph: graph[ref].add(t)
AddEdge(adj, t, ref) ==
    [x \in DOMAIN adj |->
        adj[x] \cup (IF x = t THEN {ref} ELSE {}) \cup (IF x = ref THEN {t} ELSE {})]

\* the loop over fks of table t from its j-th entry on; an empty
\* referred_table is skipped
RECURSIVE AddForeignKeys(_, _, _, _)
AddForeignKeys(adj, t, refs, j) ==
    IF j > Len(refs) THEN adj
    ELSE IF refs[j] = <<>> THEN AddForeignKeys(adj, t, refs, j + 1)
    ELSE AddForeignKeys(AddEdge(adj, t, refs[j]), t, refs, j + 1)

\* the loop over tables from the k-th one on
RECURSIVE AddTables(_, _, _)
AddTables(adj, dbSchema, k) ==
    IF k > Len(dbSchema.tables) THEN adj
    ELSE AddTables(AddForeignKeys(adj, dbSchema.tables[k].name,
                                  dbSchema.fks[dbSchema.tables[k].name], 1),
                   dbSchema, k + 1)

\* get_fk_graph: the graph built from the connected database
BuildFkGraph(dbSchema) ==
    AddTables([t \in TableNames(dbSchema) |-> {}], dbSchema, 1)

\* self._cache[key] = value
Put(f, k, v) == [x \in DOMAIN f \cup {k} |-> IF x = k THEN v ELSE f[x]]

\* the manager's fields as one record; fresh is the observer's note of the
\* cache entries stored since the last switch_database, no field of the class
Manager ==
    [database |-> database, engineDb |-> engineDb, schemaMapCache |-> schemaMapCache,
     fkGraphCache |-> fkGraphCache, fresh |-> fresh]

\* switch_database(db)
Switched(m, db) ==
    [m EXCEPT !.database = db, !.engineDb = EngineAfterSwitch(db, m.engineDb), !.fresh = {}]

\* if database: self.switch_database(database)
MaybeSwitched(m, arg) == IF arg # NoDb THEN Switched(m, arg) ELSE m

\* get_schema_map's effect on the cache
WithSchemaMap(m, world) ==
    IF DbKey(m.database) \in DOMAIN m.schemaMapCache THEN m
    ELSE [m EXCEPT
            !.schemaMapCache = Put(m.schemaMapCache, DbKey(m.database),
                                  IntrospectSchemaMap(world[m.engineDb])),
            !.fresh = m.fresh \cup {<<"map", DbKey(m.database)>>}]

\* get_fk_graph's effect on the cache
WithFkGraph(m, world) ==
    IF DbKey(m.database) \in DOMAIN m.fkGraphCache THEN m
    ELSE [m EXCEPT
            !.fkGraphCache = Put(m.fkGraphCache, DbKey(m.database),
                                BuildFkGraph(world[m.engineDb])),
            !.fresh = m.fresh \cup {<<"graph", DbKey(m.database)>>}]

\* what a call returned; fields a call does not use keep these values
NoCall ==
    [op |-> "init", key |-> "", served |-> FALSE, map |-> <<>>, graph |-> <<>>,
     tables |-> <<>>, raised |-> FALSE]

\* the fields of the manager after a call
Becomes(m) ==
    /\ database' = m.database
    /\ engineDb' = m.engineDb
    /\ schemaMapCache' = m.schemaMapCache
    /\ fkGraphCache' = m.fkGraphCache
    /\ fresh' = m.fresh

\* the tables get_compact_schema lists: selected, or all in sorted order
CompactTables(q, schema, limited, max, fk, add) ==
    IF q # <<>> /\ limited THEN SelectTables(q, schema, max, fk, add)
    ELSE IF limited THEN Slice(SortedNames(SchemaKeys(schema)), max)
    ELSE SortedNames(SchemaKeys(schema))

\* get_compact_schema once the caches are filled (m): the tables, and
\* whether inspector.get_columns raised for a table the database has not
CompactResult(m, world, q, limited, max, add, tables) ==
    [NoCall EXCEPT !.op = "get_compact_schema", !.key = DbKey(m.database),
        !.tables = tables,
        !.raised = \E k \in 1..Len(tables) : tables[k] \notin TableNames(world[m.engineDb])]

CompactSchema(m, world, q, limited, max, add) ==
    CompactResult(m, world, q, limited, max, add,
        CompactTables(q, m.schemaMapCache[DbKey(m.database)], limited, max,
                      IF q # <<>> /\ add THEN Graph(m.fkGraphCache[DbKey(m.database)])
                      ELSE NoGraph,
                      add))

\* the manager after the cache lookups of get_compact_schema
CompactCaches(m, world, q, add) ==
    IF q # <<>> /\ add THEN WithFkGraph(WithSchemaMap(m, world), world)
    ELSE WithSchemaMap(m, world)

(***************************************************************************)
(* Specification of the manager: databases whose schemas change, one       *)
(* manager, a bounded number of calls on it.                               *)
(***************************************************************************)
MaxCalls == 3

\* the max_tables a limited get_compact_schema call passes
MaxTablesArg == 2

Lesson == <<"l", "e", "s", "s", "o", "n">>

\* the schemas database "a" may have: with a self-reference, and with a
\* foreign key to a table of another database
SchemasA == {
    [tables |-> <<[name |-> Student, cols |-> <<<<"i", "d">>, <<"n", "a", "m", "e">>>>],
                  [name |-> Enrollment, cols |-> <<<<"s", "t", "u", "d", "e", "n", "t", "_", "i", "d">>>>]>>,
     fks |-> [t \in {Student, Enrollment} |-> <<Student>>]],
    [tables |-> <<[name |-> Student, cols |-> <<<<"i", "d">>>>]>>,
     fks |-> [t \in {Student} |-> <<Teacher>>]] }

\* the schema database "b" has: a foreign key and an entry without
\* referred_table
SchemasB == {
    [tables |-> <<[name |-> Course, cols |-> <<<<"i", "d">>>>],
                  [name |-> Lesson, cols |-> <<<<"c", "o", "u", "r", "s", "e", "_", "i", "d">>>>]>>,
     fks |-> [t \in {Course, Lesson} |-> IF t = Course THEN <<>> ELSE <<Course, <<>>>>]] }

\* the schema of the default database: no tables
SchemasDefault == {[tables |-> <<>>, fks |-> <<>>]}

SchemasOf(db) ==
    IF db = "a" THEN SchemasA ELSE IF db = "b" THEN SchemasB ELSE SchemasDefault

Databases == {"a", "b"}

\* the question of the modelled calls
Students == <<"s", "t", "u", "d", "e", "n", "t", "s">>

InitDb ==
    /\ dbWorld \in [Databases \cup {DefaultDb} -> SchemasA \cup SchemasB \cup SchemasDefault]
    /\ \A db \in DOMAIN dbWorld : dbWorld[db] \in SchemasOf(db)
    /\ database \in Databases \cup {NoDb}
    /\ engineDb = EngineFor(database)
    /\ schemaMapCache = <<>>
    /\ fkGraphCache = <<>>
    /\ fresh = {}
    /\ lastCall = NoCall
    /\ nCalls = 0
    /\ BaseIdle
    /\ NormIdle /\ TokIdle /\ PromptIdle

\* somebody changes the schema of a database
AlterSchema ==
    /\ \E db \in Databases : \E s \in SchemasOf(db) :
          /\ s # dbWorld[db]
          /\ dbWorld' = [dbWorld EXCEPT ![db] = s]
    /\ UNCHANGED <<database, engineDb, schemaMapCache, fkGraphCache, fresh, lastCall, nCalls,
                   exceptDbVars>>

\* switch_database(database)
SwitchDatabase ==
    /\ nCalls < MaxCalls
    /\ \E db \in Databases \cup {NoDb} :
          /\ Becomes(Switched(Manager, db))
          /\ lastCall' = [NoCall EXCEPT !.op = "switch_database", !.key = DbKey(db)]
    /\ nCalls' = nCalls + 1
    /\ UNCHANGED <<dbWorld, exceptDbVars>>

\* get_schema_map(database)
GetSchemaMap ==
    /\ nCalls < MaxCalls
    /\ \E arg \in Databases \cup {NoDb} :
          /\ Becomes(WithSchemaMap(MaybeSwitched(Manager, arg), dbWorld))
          /\ lastCall' = [NoCall EXCEPT
                !.op = "get_schema_map",
                !.key = DbKey(database'),
                !.served = DbKey(database') \in DOMAIN schemaMapCache,
                !.map = schemaMapCache'[DbKey(database')]]
    /\ nCalls' = nCalls + 1
    /\ UNCHANGED <<dbWorld, exceptDbVars>>

\* get_fk_graph(database)
GetFkGraph ==
    /\ nCalls < MaxCalls
    /\ \E arg \in Databases \cup {NoDb} :
          /\ Becomes(WithFkGraph(MaybeSwitched(Manager, arg), dbWorld))
          /\ lastCall' = [NoCall EXCEPT
                !.op = "get_fk_graph",
                !.key = DbKey(database'),
                !.served = DbKey(database') \in DOMAIN fkGraphCache,
                !.graph = fkGraphCache'[DbKey(database')]]
    /\ nCalls' = nCalls + 1
    /\ UNCHANGED <<dbWorld, exceptDbVars>>

\* get_table_names(database) and get_schema(database): a switch when a
\* database is named, then an inspection without the caches
GetTableNames ==
    /\ nCalls < MaxCalls
    /\ \E arg \in Databases \cup {NoDb} :
          /\ Becomes(MaybeSwitched(Manager, arg))
          /\ lastCall' = [NoCall EXCEPT
                !.op = "get_table_names",
                !.key = DbKey(database'),
                !.map = IntrospectSchemaMap(dbWorld[engineDb'])]
    /\ nCalls' = nCalls + 1
    /\ UNCHANGED <<dbWorld, exceptDbVars>>

\* the arguments of the modelled get_compact_schema calls: no question with
\* and without max_tables, a question with max_tables with and without the
\* neighbours, a question without max_tables
CompactCalls == {
    [q |-> <<>>, limited |-> FALSE, add |-> TRUE],
    [q |-> <<>>, limited |-> TRUE, add |-> TRUE],
    [q |-> Students, limited |-> TRUE, add |-> TRUE],
    [q |-> Students, limited |-> TRUE, add |-> FALSE],
    [q |-> Students, limited |-> FALSE, add |-> TRUE] }

\* get_compact_schema(database, max_tables, question, add_fk_neighbors)
GetCompactSchema ==
    /\ nCalls < MaxCalls
    /\ \E arg \in Databases \cup {NoDb} : \E c \in CompactCalls :
          /\ Becomes(CompactCaches(MaybeSwitched(Manager, arg), dbWorld, c.q, c.add))
          /\ lastCall' = CompactSchema(Manager', dbWorld, c.q, c.limited, MaxTablesArg, c.add)
    /\ nCalls' = nCalls + 1
    /\ UNCHANGED <<dbWorld, exceptDbVars>>

NextDb ==
    \/ AlterSchema \/ SwitchDatabase \/ GetSchemaMap \/ GetFkGraph \/ GetTableNames
    \/ GetCompactSchema

SpecDb == InitDb /\ [][NextDb]_vars

(***************************************************************************)
(* Specification of the tokenizer: a text is composed of pieces, then      *)
(* tokenized as a question (_normalize_tokens) and as a table or column    *)
(* name (_split_ident, lower, _stem)                                       *)
(***************************************************************************)
\* the most pieces a text is composed of
MaxTokPieces == 2

\* x.lower() for each raw token
LowerAll(toks) == [k \in 1..Len(toks) |-> ToLower(toks[k])]

\* [_stem(x.lower()) for x in _split_ident(s)]: the tokens of a table or
\* column name, in order
IdentStems(s) == StemAll(LowerAll(SplitIdent(s)))

\* words, suffixes and separators the texts are composed of
TokPieces == {
    <<"d", "o">>, <<"u", "s">>, <<"y">>, <<"b", "o", "x">>, <<"c", "l", "a", "s", "s">>, <<"s", "t", "u", "d", "e", "n", "t">>, <<"N", "a", "m", "e">>, <<"t", "h", "e">>,
    <<"i", "n", "g">>, <<"e", "d">>, <<"e", "s">>, <<"s">>, <<"_">>, <<"2">>, <<" ">> }

InitTokens ==
    /\ tokIn = <<>>
    /\ nTokPieces = 0
    /\ tokIdent = <<>>
    /\ tokNorm = <<>>
    /\ tokPc = "compose"
    /\ BaseIdle
    /\ NormIdle /\ DbIdle /\ PromptIdle

\* the text grows by one piece
AppendTokPiece ==
    /\ tokPc = "compose"
    /\ nTokPieces < MaxTokPieces
    /\ \E piece \in TokPieces : tokIn' = tokIn \o piece
    /\ nTokPieces' = nTokPieces + 1
    /\ UNCHANGED <<tokIdent, tokNorm, tokPc, exceptTokVars>>

\* q_tokens = _normalize_tokens(text); t_tokens = the stems of _split_ident(text)
Tokenize ==
    /\ tokPc = "compose"
    /\ tokNorm' = NormalizeTokens(tokIn)
    /\ tokIdent' = IdentStems(tokIn)
    /\ tokPc' = "tokenized"
    /\ UNCHANGED <<tokIn, nTokPieces, exceptTokVars>>

NextTokens == AppendTokPiece \/ Tokenize

SpecTokens == InitTokens /\ [][NextTokens]_vars

(***************************************************************************)
(* GPT2XLAgent._make_inputs_under_limit of models/gpt2xl_agent.py.  Texts  *)
(* are their token counts: the schema is the sequence of the token counts  *)
(* of its lines (0 for a blank line), token counts are additive over       *)
(* concatenation and a newline is one token.                               *)
(***************************************************************************)
\* getattr(self.model.config, "n_positions", 1024)
MaxCtx == 1024

\* the least number of question tokens the truncation keeps
MinKeep == 32

Larger(a, b) == IF a >= b THEN a ELSE b

Smaller(a, b) == IF a <= b THEN a ELSE b

\* [ln for ln in schema.splitlines() if ln.strip()]
IsLine(n) == n > 0

\* the loop of _truncate_schema_by_lines from line k on, used tokens so far
RECURSIVE KeptLines(_, _, _, _)
KeptLines(lines, k, used, budgetTokens) ==
    IF k > Len(lines) THEN <<>>
    ELSE IF used + lines[k] + 1 > budgetTokens THEN <<>>
    ELSE <<lines[k]>> \o KeptLines(lines, k + 1, used + lines[k] + 1, budgetTokens)

\* _truncate_schema_by_lines(schema, schema_budget_tokens): the lines kept
TruncateSchemaByLines(lines, budgetTokens) ==
    IF budgetTokens <= 0 THEN <<>>
    ELSE KeptLines(SelectSeq(lines, IsLine), 1, 0, budgetTokens)

RECURSIVE TotalTokens(_, _)
TotalTokens(lines, k) == IF k > Len(lines) THEN 0 ELSE lines[k] + TotalTokens(lines, k + 1)

\* len(tokenizer("\n".join(kept)).input_ids)
JoinedTokens(kept) == IF kept = <<>> THEN 0 ELSE TotalTokens(kept, 1) + Len(kept) - 1

\* the question_ids kept: question_ids[-keep:] when fixed_len > budget
QuestionKept(q, budget, fixedParts) ==
    IF fixedParts + q > budget THEN Smaller(q, Larger(MinKeep, budget - fixedParts)) ELSE q

\* the prompt once the question is cut to qKept tokens and the schema to kept
PromptOf(kept, qKept, fixedParts) ==
    [raised |-> FALSE, inputLen |-> fixedParts + JoinedTokens(kept) + qKept,
     questionKept |-> qKept, linesKept |-> Len(kept)]

\* the rest of _make_inputs_under_limit once the question is cut
WithQuestion(lines, qKept, budget, fixedParts) ==
    PromptOf(TruncateSchemaByLines(lines, Larger(0, budget - (fixedParts + qKept))),
             qKept, fixedParts)

\* _make_inputs_under_limit with budget = max_ctx - max_new_tokens
WithBudget(lines, q, budget, fixedParts) ==
    IF budget <= 0 THEN [raised |-> TRUE, inputLen |-> 0, questionKept |-> 0, linesKept |-> 0]
    ELSE WithQuestion(lines, QuestionKept(q, budget, fixedParts), budget, fixedParts)

\* _make_inputs_under_limit(schema, question, max_new_tokens)
MakeInputsUnderLimit(lines, q, maxNew, fixedParts) ==
    WithBudget(lines, q, MaxCtx - maxNew, fixedParts)

(***************************************************************************)
(* Specification of the prompt builder: a schema is composed line by line, *)
(* then the prompt is built for a question and a max_new_tokens            *)
(***************************************************************************)
\* the most lines a modelled schema has
MaxLines == 2

\* token counts of a schema line: blank, short, long, longer than any budget
LineLens == {0, 5, 300, 2000}

\* token counts of the question
QuestionLens == {0, 10, 40, 1000, 1100}

\* max_new_tokens: the default of generate_sql, values near max_ctx, max_ctx
NewTokens == {64, 1000, 1023, 1024}

\* token counts of prefix, mid and suffix together
Overheads == {3, 17}

InitPrompt ==
    /\ schemaLines = <<>>
    /\ questionLen \in QuestionLens
    /\ maxNewTokens \in NewTokens
    /\ overhead \in Overheads
    /\ promptOut = <<>>
    /\ promptPc = "compose"
    /\ BaseIdle
    /\ NormIdle /\ DbIdle /\ TokIdle

\* the compact schema has one more line
AddSchemaLine ==
    /\ promptPc = "compose"
    /\ Len(schemaLines) < MaxLines
    /\ \E n \in LineLens : schemaLines' = Append(schemaLines, n)
    /\ UNCHANGED <<questionLen, maxNewTokens, overhead, promptOut, promptPc, exceptPromptVars>>

\* inputs = agent._make_inputs_under_limit(schema, question, max_new_tokens)
MakeInputs ==
    /\ promptPc = "compose"
    /\ promptOut' = MakeInputsUnderLimit(schemaLines, questionLen, maxNewTokens, overhead)
    /\ promptPc' = "built"
    /\ UNCHANGED <<schemaLines, questionLen, maxNewTokens, overhead, exceptPromptVars>>

NextPrompt == AddSchemaLine \/ MakeInputs

SpecPrompt == InitPrompt /\ [][NextPrompt]_vars

(***************************************************************************)
(* Properties of the comparator                                            *)
(***************************************************************************)
CompareDone == cmpPc = "done"

BothFrames == ~result1.none /\ ~result2.none

\* df with rows k and k+1 exchanged
SwapRows(df, k) ==
    Frame(df.columns,
          [j \in 1..Len(df.rows) |->
              IF j = k THEN df.rows[k + 1] ELSE IF j = k + 1 THEN df.rows[k] ELSE df.rows[j]])

SwapAt(seq, i) ==
    [j \in 1..Len(seq) |-> IF j = i THEN seq[i + 1] ELSE IF j = i + 1 THEN seq[i] ELSE seq[j]]

\* df with columns i and i+1 (labels and cells) exchanged
SwapColumns(df, i) ==
    Frame(SwapAt(df.columns, i), [k \in 1..Len(df.rows) |-> SwapAt(df.rows[k], i)])

\* the cell positions at which two frames of one shape differ
DiffPositions(df1, df2) ==
    {p \in (1..Len(df1.rows)) \X (1..Len(df1.columns)) :
        df1.rows[p[1]][p[2]] # df2.rows[p[1]][p[2]]}

HasNull(df) ==
    \E k \in 1..Len(df.rows) : \E i \in 1..Len(df.columns) : df.rows[k][i] = NULL

\* C1: a successful result compares equal to itself: compare_results(R, R)
\* is true for every table R, also with repeated column names and null cells.
C1_Reflexive ==
    (CompareDone /\ BothFrames /\ result1 = result2) => cmpOut = "true"

\* C2: compare_results(A, B) = compare_results(B, A) for all A and B, each
\* absent or a table, although the column order is taken from the first.
C2_Symmetric ==
    CompareDone => cmpOut = CompareResults(result2, result1, pandasBuild)

\* C2 witness: two tables listing the same columns in different orders were
\* compared and found equal.
C2_Witness ==
    /\ CompareDone
    /\ BothFrames
    /\ result1.columns # result2.columns
    /\ Len(result1.rows) = 2
    /\ cmpOut = "true"

\* C3: compare_results(A, B) does not change when two neighbouring rows of A
\* or of B are exchanged, nor when two neighbouring columns of A or of B are
\* exchanged. Every permutation is a product of such exchanges and the
\* tables range over all frames of the bound, so the outcome is the same
\* under every permutation of the rows and of the columns.
C3_OrderInsensitive ==
    (CompareDone /\ BothFrames) =>
        /\ \A k \in 1..(Len(result1.rows) - 1) :
              CompareResults(SwapRows(result1, k), result2, pandasBuild) = cmpOut
        /\ \A k \in 1..(Len(result2.rows) - 1) :
              CompareResults(result1, SwapRows(result2, k), pandasBuild) = cmpOut
        /\ \A i \in 1..(Len(result1.columns) - 1) :
              CompareResults(SwapColumns(result1, i), result2, pandasBuild) = cmpOut
        /\ \A i \in 1..(Len(result2.columns) - 1) :
              CompareResults(result1, SwapColumns(result2, i), pandasBuild) = cmpOut

\* C3 witness: a table was compared with a copy of itself whose two distinct
\* rows are in the other order and whose columns are listed the other way
\* round, and the two were found equal.
C3_Witness ==
    /\ CompareDone
    /\ BothFrames
    /\ Len(result1.rows) = 2
    /\ result1.rows[1] # result1.rows[2]
    /\ Len(result1.columns) = 2
    /\ result2 = SwapColumns(SwapRows(result1, 1), 1)
    /\ cmpOut = "true"

\* C4, first half: tables with the same columns and the same rows, nulls in
\* the same positions, compare equal.
C4_NullEqualsNull ==
    (CompareDone /\ BothFrames /\ result1 = result2 /\ HasNull(result1)) => cmpOut = "true"

\* C4, second half: tables that differ in one cell only, null in the first
\* and a non-null value (any value, strings included) in the second, compare
\* unequal.
C4_NullNeverEqualsValue ==
    (/\ CompareDone
     /\ BothFrames
     /\ result1.columns = result2.columns
     /\ Len(result1.rows) = Len(result2.rows)
     /\ Cardinality(DiffPositions(result1, result2)) = 1
     /\ \A p \in DiffPositions(result1, result2) : result1.rows[p[1]][p[2]] = NULL)
    => cmpOut = "false"

\* C4: null semantics of the comparator: a null cell compares equal to a null
\* cell and to nothing else (both halves above).
C4_NullSemantics == C4_NullEqualsNull /\ C4_NullNeverEqualsValue

\* C5: compare_results returns false, and raises nothing, whenever a result
\* is absent, the column-name sets differ, or the row counts differ.
C5_IncomparableIsFalse ==
    CompareDone =>
        /\ (result1.none \/ result2.none) => cmpOut = "false"
        /\ (BothFrames /\ ColumnSet(result1) # ColumnSet(result2)) => cmpOut = "false"
        /\ (BothFrames /\ Len(result1.rows) # Len(result2.rows)) => cmpOut = "false"

\* C5 witness: a result over columns {a, b} was compared with one over
\* {a, b, c}, and an absent result with a table.
C5_Witness ==
    /\ CompareDone
    /\ BothFrames
    /\ ColumnSet(result1) = {"a", "b"}
    /\ ColumnSet(result2) = {"a", "b", "c"}
    /\ Len(result1.rows) = 1
    /\ Len(result2.rows) = 1
    /\ cmpOut = "false"

(***************************************************************************)
(* Properties of the repairer                                              *)
(***************************************************************************)
Repaired == repPc \in {"once", "twice"}

\* The terminated quoted literals of a text, in order, as a lexer reads
\* them: a quote opens a literal, the same quote doubled inside it is an
\* escaped quote, the same quote alone closes it. A literal still open at
\* the end of the text is not terminated and is left out.
RECURSIVE LexFrom(_, _, _, _)
LexFrom(str, p, open, q) ==
    IF p > Len(str) THEN <<>>
    ELSE IF open = 0
         THEN IF str[p] \in {"'", "\""} THEN LexFrom(str, p + 1, p, str[p])
              ELSE LexFrom(str, p + 1, 0, q)
         ELSE IF str[p] # q THEN LexFrom(str, p + 1, open, q)
              ELSE IF p + 1 <= Len(str) /\ str[p + 1] = q THEN LexFrom(str, p + 2, open, q)
              ELSE <<SubSeq(str, open, p)>> \o LexFrom(str, p + 1, 0, q)

Literals(str) == LexFrom(str, 1, 0, "'")

\* the table-position tokens of one unquoted chunk, as positions of the
\* whole text (offset is the length of the text before the chunk)
RECURSIVE ChunkSpans(_, _, _)
ChunkSpans(chunk, pos, offset) ==
    LET m == FindTablePos(chunk, pos)
    IN  IF ~m.found THEN <<>>
        ELSE <<[start |-> offset + m.tokStart, end |-> offset + m.tokEnd]>>
             \o ChunkSpans(chunk, m.end, offset)

RECURSIVE PartSpans(_, _, _)
PartSpans(parts, k, offset) ==
    IF k > Len(parts) THEN <<>>
    ELSE (IF k % 2 = 1 THEN ChunkSpans(parts[k], 1, offset) ELSE <<>>)
         \o PartSpans(parts, k + 1, offset + Len(parts[k]))

\* the identifier tokens that follow FROM, JOIN, UPDATE, INTO or DELETE FROM
\* in the unquoted text of str: start..end-1 are the positions of each
TokenSpans(str) == PartSpans(SplitQuoted(str), 1, 0)

\* whether out is the text in from position pos on, with each token of
\* spans (from the k-th on) kept or replaced by a name of tables and every
\* other character kept
RECURSIVE OnlyTokensChanged(_, _, _, _, _, _)
OnlyTokensChanged(in, pos, spans, k, out, tables) ==
    IF k > Len(spans) THEN out = Suffix(in, pos)
    ELSE LET gap == SubSeq(in, pos, spans[k].start - 1)
             tok == SubSeq(in, spans[k].start, spans[k].end - 1)
         IN  /\ HasAt(out, 1, gap) \/ gap = <<>>
             /\ \E r \in {tok} \cup Range(tables) :
                   /\ HasAt(out, Len(gap) + 1, r)
                   /\ OnlyTokensChanged(in, spans[k].end, spans, k + 1,
                                        Suffix(out, Len(gap) + Len(r) + 1), tables)

\* whether text ends with tail
EndsWith(text, tail) ==
    /\ Len(tail) <= Len(text)
    /\ Suffix(text, Len(text) - Len(tail) + 1) = tail

\* the text has exactly one table-position token
OneToken == Len(TokenSpans(sql)) = 1

TheToken == SubSeq(sql, TokenSpans(sql)[1].start, TokenSpans(sql)[1].end - 1)

TableIndexes == 1..Len(actualTables)

\* no actual table equals the token ignoring case
NoExactMatch(tok) == \A k \in TableIndexes : LowerStr(actualTables[k]) # LowerStr(tok)

\* the actual tables that equal the token without its final s, ignoring case
SingularMatches(tok) ==
    {k \in TableIndexes :
        /\ Lower(tok[Len(tok)]) = "s"
        /\ LowerStr(actualTables[k]) = SubSeq(LowerStr(tok), 1, Len(tok) - 1)}

ScoreOf(tok, k) == Ratio(LowerStr(tok), LowerStr(actualTables[k]))

\* the best-scoring table: the first in list order among the highest ratios
BestScoring(tok) ==
    CHOOSE k \in TableIndexes :
        /\ \A j \in TableIndexes : ~RLess(ScoreOf(tok, k), ScoreOf(tok, j))
        /\ \A j \in 1..(k - 1) : RLess(ScoreOf(tok, j), ScoreOf(tok, k))

\* the guard of C9 in hundredths: best_ratio >= min_ratio and (best_ratio >=
\* 0.99 or best_ratio - second_best_ratio >= min_gap), second_best_ratio
\* being 0 when there is one table only
GuardAccepts(tok) ==
    LET b == BestScoring(tok)
        best == ScoreOf(tok, b)
    IN  /\ 100 * best[1] >= MinRatioPct * best[2]
        /\ \/ 100 * best[1] >= NearPerfectPct * best[2]
           \/ \A j \in TableIndexes \ {b} :
                 LET second == ScoreOf(tok, j)
                 IN  100 * (best[1] * second[2] - second[1] * best[2])
                        >= MinGapPct * best[2] * second[2]

\* C6: every terminated quoted literal of the SQL (single- or double-quoted,
\* a doubled quote inside it counting as escaped) is in the repaired SQL
\* character for character, in the same order, also when it holds a keyword
\* followed by a misspelled table name.
C6_LiteralsUnchanged ==
    Repaired => Literals(repOut.sql) = Literals(sql)

\* C6 witness: the SQL holds the literal 'a''from date' and, outside it, a
\* token that the repair replaced.
C6_Witness ==
    /\ repPc = "once"
    /\ Literals(sql) = <<<<"'", "a", "'", "'", "f", "r", "o", "m", " ", "d", "a", "t", "e", "'">>>>
    /\ Len(repOut.changes) = 1
    /\ repOut.sql # sql

\* C7: the repaired SQL differs from the SQL only at table-position tokens:
\* each is kept or replaced by a member of actual_tables, and the keyword,
\* the whitespace, the backticks and every other character are unchanged.
C7_OnlyTokensChange ==
    Repaired => OnlyTokensChanged(sql, 1, TokenSpans(sql), 1, repOut.sql, actualTables)

\* C8: repairing the repaired SQL again returns the same SQL and no
\* corrections.
C8_Idempotent ==
    repPc = "twice" => (repOut2.sql = repOut.sql /\ repOut2.changes = <<>>)

\* C9: a table-position token with no exact and no singular-of-plural match
\* is replaced by the best-scoring table, with a correction recorded, if the
\* guard accepts; otherwise the SQL is unchanged and no correction is
\* recorded. Stated for every SQL with one table-position token.
C9_AmbiguityGuard ==
    (Repaired /\ actualTables # <<>> /\ OneToken)
    => LET span == TokenSpans(sql)[1]
           tok == SubSeq(sql, span.start, span.end - 1)
           b == BestScoring(tok)
       IN  (NoExactMatch(tok) /\ SingularMatches(tok) = {})
           => IF GuardAccepts(tok)
              THEN /\ EndsWith(repOut.sql, actualTables[b] \o Suffix(sql, span.end))
                   /\ repOut.changes =
                         <<[from |-> tok, to |-> actualTables[b],
                            ratio |-> Round4(ScoreOf(tok, b))]>>
              ELSE repOut.sql = sql /\ repOut.changes = <<>>

\* C9 witness: the token date scores 0.8889 against each of the tables dates
\* and dated, at least min_ratio but with no gap, and was left unchanged.
C9_Witness ==
    /\ repPc = "once"
    /\ sql = <<"f", "r", "o", "m", " ", "d", "a", "t", "e">>
    /\ actualTables = <<<<"d", "a", "t", "e", "s">>, <<"d", "a", "t", "e", "d">>>>
    /\ ~GuardAccepts(TheToken)
    /\ 100 * ScoreOf(TheToken, BestScoring(TheToken))[1]
          >= MinRatioPct * ScoreOf(TheToken, BestScoring(TheToken))[2]
    /\ repOut = [sql |-> sql, changes |-> <<>>]

\* C10: a table-position token ending in s that is no actual table, and
\* whose remainder equals an actual table ignoring case, is replaced by that
\* table (the first such in the list) and exactly one correction from the
\* token to the table at 0.99 is recorded; tables flight and airport with
\* SELECT * FROM flights give SELECT * FROM flight. Stated for every SQL
\* with one table-position token.
C10_SingularOfPlural ==
    /\ (Repaired /\ OneToken)
       => LET span == TokenSpans(sql)[1]
              tok == SubSeq(sql, span.start, span.end - 1)
              singulars == SingularMatches(tok)
              k == CHOOSE i \in singulars : \A j \in singulars : i <= j
          IN  (NoExactMatch(tok) /\ singulars # {})
              => /\ repOut.sql = SubSeq(sql, 1, span.start - 1) \o actualTables[k]
                                 \o Suffix(sql, span.end)
                 /\ repOut.changes =
                       <<[from |-> tok, to |-> actualTables[k], ratio |-> 100 * PluralPct]>>
    /\ (/\ Repaired
        /\ sql = <<"S", "E", "L", "E", "C", "T", " ", "*", " ", "F", "R", "O", "M", " ", "f", "l", "i", "g", "h", "t", "s">>
        /\ actualTables = <<<<"f", "l", "i", "g", "h", "t">>, <<"a", "i", "r", "p", "o", "r", "t">>>>)
       => repOut = [sql |-> <<"S", "E", "L", "E", "C", "T", " ", "*", " ", "F", "R", "O", "M", " ", "f", "l", "i", "g", "h", "t">>,
                    changes |-> <<[from |-> <<"f", "l", "i", "g", "h", "t", "s">>, to |-> <<"f", "l", "i", "g", "h", "t">>, ratio |-> 9900]>>]

\* C10 witness: the scenario of the claim was repaired.
C10_Witness ==
    /\ repPc = "once"
    /\ sql = <<"S", "E", "L", "E", "C", "T", " ", "*", " ", "F", "R", "O", "M", " ", "f", "l", "i", "g", "h", "t", "s">>
    /\ actualTables = <<<<"f", "l", "i", "g", "h", "t">>, <<"a", "i", "r", "p", "o", "r", "t">>>>
    /\ SingularMatches(TheToken) = {1}
    /\ Len(repOut.changes) = 1

\* position of the quote that opens the literal still open at the end of str
\* (0 when every literal is closed), read as LexFrom reads
RECURSIVE OpenQuoteFrom(_, _, _, _)
OpenQuoteFrom(str, p, open, q) ==
    IF p > Len(str) THEN open
    ELSE IF open = 0
         THEN IF str[p] \in {"'", "\""} THEN OpenQuoteFrom(str, p + 1, p, str[p])
              ELSE OpenQuoteFrom(str, p + 1, 0, q)
         ELSE IF str[p] # q THEN OpenQuoteFrom(str, p + 1, open, q)
              ELSE IF p + 1 <= Len(str) /\ str[p + 1] = q
                   THEN OpenQuoteFrom(str, p + 2, open, q)
              ELSE OpenQuoteFrom(str, p + 1, 0, q)

OpenQuote(str) == OpenQuoteFrom(str, 1, 0, "'")

\* C11: for SQL with an unbalanced quote the repair returns, and the text
\* from the opening quote of the unterminated literal to the end of the
\* string is in the output unchanged: no table name is substituted after
\* that quote.
C11_UnterminatedUntouched ==
    (Repaired /\ OpenQuote(sql) # 0)
    => EndsWith(repOut.sql, Suffix(sql, OpenQuote(sql)))

\* the actual tables equal to the token ignoring case
ExactTables(tok) ==
    {actualTables[k] : k \in {j \in TableIndexes : LowerStr(actualTables[j]) = LowerStr(tok)}}

\* C24: a table-position token equal to an actual table ignoring case is
\* written in the output in that table's case and no correction is recorded
\* for it (stated for every SQL with one table-position token); and every
\* recorded correction has a target that differs from its token ignoring
\* case, in every repair.
C24_ExactMatchNormalised ==
    /\ (Repaired /\ OneToken)
       => LET span == TokenSpans(sql)[1]
              tok == SubSeq(sql, span.start, span.end - 1)
          IN  ExactTables(tok) # {}
              => /\ Len(repOut.sql) = Len(sql)
                 /\ SubSeq(repOut.sql, span.start, span.end - 1) \in ExactTables(tok)
                 /\ repOut.changes = <<>>
    /\ Repaired
       => \A c \in 1..Len(repOut.changes) :
             LowerStr(repOut.changes[c].to) # LowerStr(repOut.changes[c].from)

\* C24 witness: the token Dates in backticks was rewritten to the table
\* dates and nothing was recorded.
C24_Witness ==
    /\ repPc = "once"
    /\ OneToken
    /\ TheToken = <<"D", "a", "t", "e", "s">>
    /\ actualTables = <<<<"d", "a", "t", "e", "s">>>>
    /\ SubSeq(repOut.sql, TokenSpans(sql)[1].start, TokenSpans(sql)[1].end - 1)
          = <<"d", "a", "t", "e", "s">>
    /\ repOut.changes = <<>>

(***************************************************************************)
(* Properties of the table selector                                        *)
(***************************************************************************)
SelectDone == selPc = "selected"

\* the selection before the expansion: the ranked selection or the fallback
BaseSelection ==
    OrFallback(RankedSelection(ranked, maxTables), schemaMap, maxTables)

\* the expansion step was entered
Expanding == GraphGiven(fkGraph) /\ addNeighbors /\ Len(BaseSelection) < maxTables

\* C12: _select_tables returns at most max_tables names, for every
\* max_tables >= 0, with the ranked selection and after the expansion.
C12_WithinBudget ==
    SelectDone => Len(selected) <= maxTables

\* C12 witness: the expansion added a table and stopped at the budget while
\* a neighbour of a selected table was still unselected.
C12_Witness ==
    /\ SelectDone
    /\ Expanding
    /\ Len(selected) = maxTables
    /\ Len(selected) > Len(BaseSelection)
    /\ \E k \in 1..Len(BaseSelection) :
          Neighbours(fkGraph, BaseSelection[k]) \ Range(selected) # {}

\* the tokens of a table's name and of its columns
TableTokens(table) == IdentTokens(table.name) \cup ColTokens(table.cols)

\* the table has a token equal to a stemmed token of the question
HasOverlap(qTokens, table) == Range(qTokens) \cap TableTokens(table) # {}

\* the score the stored ranking gives to the table of that name
RankedScore(name) ==
    LET k == CHOOSE i \in 1..Len(ranked) : ranked[i].name = name
    IN  ranked[k].score

\* the names the stored ranking scores above zero
PositiveNames == {ranked[i].name : i \in {j \in 1..Len(ranked) : ranked[j].score[1] > 0}}

NoPositive == PositiveNames = {}

\* the smaller of two numbers
Min(a, b) == IF a <= b THEN a ELSE b

\* seq is the first n names of the schema in ascending order
FirstNames(seq, n) ==
    /\ Len(seq) = Min(n, Len(schemaMap))
    /\ Range(seq) \subseteq SchemaKeys(schemaMap)
    /\ \A i \in 1..Len(seq) : \A j \in 1..Len(seq) : i < j => StrLess(seq[i], seq[j])
    /\ \A i \in 1..Len(seq) :
          \A name \in SchemaKeys(schemaMap) \ Range(seq) : StrLess(seq[i], name)

\* C14: when no table scores above zero the selection is the first
\* min(max_tables, number of tables) names in ascending order, so it is
\* non-empty for a non-empty schema with max_tables >= 1 and empty for an
\* empty schema.
C14_Fallback ==
    (SelectDone /\ NoPositive) => FirstNames(selected, maxTables)

\* the schema mapping iterated from its last entry to its first
Reversed(seq) == [k \in 1..Len(seq) |-> seq[Len(seq) + 1 - k]]

\* the schema mapping iterated from its second entry, the first one last
Rotated(seq) == IF seq = <<>> THEN <<>> ELSE Append(Tail(seq), Head(seq))

\* the position of a table of the schema in the stored ranking
RankedAt(name) == CHOOSE i \in 1..Len(ranked) : ranked[i].name = name

\* C15: the ranking holds every table of the schema exactly once, in
\* descending score order with equal scores in ascending name order, and is
\* the same for every iteration order of the schema mapping and for a second
\* call with the same inputs.
C15_RankingTotalOrder ==
    SelectDone
    => /\ Len(ranked) = Len(schemaMap)
       /\ {ranked[i].name : i \in 1..Len(ranked)} = SchemaKeys(schemaMap)
       /\ \A i \in 1..Len(ranked) : \A j \in 1..Len(ranked) :
             i < j => \/ RLess(ranked[j].score, ranked[i].score)
                      \/ /\ ranked[i].score = ranked[j].score
                         /\ StrLess(ranked[i].name, ranked[j].name)
       /\ ranked = RankTablesForQuestion(question, schemaMap)
       /\ ranked = RankTablesForQuestion(question, Reversed(schemaMap))
       /\ ranked = RankTablesForQuestion(question, Rotated(schemaMap))

\* C15 witness: three tables were ranked, two of them with equal scores and
\* met in descending name order, and a table met later scored higher than
\* one met before it.
C15_Witness ==
    /\ SelectDone
    /\ Len(schemaMap) >= 3
    /\ \E i \in 1..Len(schemaMap) : \E j \in 1..Len(schemaMap) :
          /\ i < j
          /\ StrLess(schemaMap[j].name, schemaMap[i].name)
          /\ ranked[RankedAt(schemaMap[i].name)].score
                = ranked[RankedAt(schemaMap[j].name)].score
          /\ RankedAt(schemaMap[j].name) < RankedAt(schemaMap[i].name)
    /\ \E i \in 1..Len(schemaMap) : \E j \in 1..Len(schemaMap) :
          /\ i < j
          /\ RLess(ranked[RankedAt(schemaMap[i].name)].score,
                   ranked[RankedAt(schemaMap[j].name)].score)

\* the neighbours of the tables base[i..], source by source, each source's
\* neighbours in ascending order
RECURSIVE NeighbourList(_, _)
NeighbourList(base, i) ==
    IF i > Len(base) THEN <<>>
    ELSE SortedNames(Neighbours(fkGraph, base[i])) \o NeighbourList(base, i + 1)

\* the entries of seq that are not in seen, each at its first occurrence
RECURSIVE FirstNew(_, _)
FirstNew(seq, seen) ==
    IF seq = <<>> THEN <<>>
    ELSE IF Head(seq) \in seen THEN FirstNew(Tail(seq), seen)
    ELSE <<Head(seq)>> \o FirstNew(Tail(seq), seen \cup {Head(seq)})

\* base followed by as many of the new names as the budget leaves room for
AppendedUpTo(base, new, max) ==
    base \o SubSeq(new, 1, Min(Len(new), max - Len(base)))

\* C16: when the expansion applies the result is the ranked or fallback
\* selection S followed by the not yet selected 1-hop neighbours of the tables
\* of S, source by source in the order of S and ascending within a source, cut
\* off at max_tables; otherwise the result is S.
C16_ExpansionAppends ==
    SelectDone
    => IF Expanding
       THEN selected = AppendedUpTo(BaseSelection,
                                    FirstNew(NeighbourList(BaseSelection, 1),
                                             Range(BaseSelection)),
                                    maxTables)
       ELSE selected = BaseSelection

\* C16 witness: the expansion appended a table and ended under the budget
\* although an appended table has a neighbour that is not selected.
C16_Witness ==
    /\ SelectDone
    /\ Expanding
    /\ Len(selected) > Len(BaseSelection)
    /\ Len(selected) < maxTables
    /\ \E k \in (Len(BaseSelection) + 1)..Len(selected) :
          Neighbours(fkGraph, selected[k]) \ Range(selected) # {}

\* the number of table-name tokens and of column tokens of a table that are
\* tokens of the question
NameHits(qTokens, table) == Cardinality(Range(qTokens) \cap IdentTokens(table.name))

ColHits(qTokens, table) == Cardinality(Range(qTokens) \cap ColTokens(table.cols))

\* table a has a name hit, table b has none and at most two column hits
Dominates(qTokens, a, b) ==
    /\ NameHits(qTokens, a) >= 1
    /\ NameHits(qTokens, b) = 0
    /\ ColHits(qTokens, b) <= 2

HowManyStudents == <<"H", "o", "w", " ", "m", "a", "n", "y", " ", "s", "t", "u", "d", "e", "n", "t", "s", " ", "a", "r", "e", " ", "t", "h", "e", "r", "e", "?">>

\* the scenario of the specification: schema, question, budget, no expansion
StudentScenario ==
    /\ SchemaKeys(schemaMap) = {Student, Course, Enrollment}
    /\ question = HowManyStudents
    /\ maxTables = 2
    /\ ~addNeighbors

\* C17: a table with a table-name token equal to a stemmed question token is
\* ranked strictly before every table without such a token and with at most
\* two column-token matches; in the student scenario the selection starts
\* with student.
C17_NameHitsDominate ==
    SelectDone
    => /\ \A i \in 1..Len(schemaMap) : \A j \in 1..Len(schemaMap) :
             Dominates(NormalizeTokens(question), schemaMap[i], schemaMap[j])
             => RankedAt(schemaMap[i].name) < RankedAt(schemaMap[j].name)
       /\ StudentScenario => (selected # <<>> /\ selected[1] = Student)

\* C17 witness: the student scenario was selected, student before a table
\* that has a column hit and no name hit.
C17_Witness ==
    /\ SelectDone
    /\ StudentScenario
    /\ selected[1] = Student
    /\ \E j \in 1..Len(schemaMap) :
          /\ NameHits(NormalizeTokens(question), schemaMap[j]) = 0
          /\ ColHits(NormalizeTokens(question), schemaMap[j]) >= 1
          /\ schemaMap[j].name \in Range(selected)

\* C28: every name _select_tables returns is a key of the schema map and no
\* name is returned twice, for every question, schema, max_tables and
\* foreign-key graph.
C28_SelectedAreSchemaTables ==
    SelectDone =>
        /\ \A k \in 1..Len(selected) : selected[k] \in SchemaKeys(schemaMap)
        /\ \A i \in 1..Len(selected) : \A j \in 1..Len(selected) :
              selected[i] = selected[j] => i = j

(***************************************************************************)
(* Properties of the gold-SQL filler                                       *)
(***************************************************************************)
FillDone == fillPc = "filled"

\* the replacements of the call
Effective == Replacements(sentVars, entryVars)

\* the positions from p on where name stands as a whole token in text
Occurrences(text, p, name) ==
    {q \in p..Len(text) :
        /\ q + Len(name) - 1 <= Len(text)
        /\ \A k \in 1..Len(name) : text[q + k - 1] = name[k]
        /\ q > 1 => ~IsTokenChar(text[q - 1])
        /\ q + Len(name) <= Len(text) => ~IsTokenChar(text[q + Len(name)])}

\* the least element of a non-empty set of positions
Least(ps) == CHOOSE q \in ps : \A r \in ps : q <= r

\* text from p on with the whole-token occurrences of name replaced by ins
RECURSIVE ReplaceTokens(_, _, _, _)
ReplaceAt(text, p, name, ins, q) ==
    SubSeq(text, p, q - 1) \o ins \o ReplaceTokens(text, q + Len(name), name, ins)

ReplaceTokens(text, p, name, ins) ==
    IF Occurrences(text, p, name) = {} THEN SubSeq(text, p, Len(text))
    ELSE ReplaceAt(text, p, name, ins, Least(Occurrences(text, p, name)))

\* the text a returning call inserts for a value
InsertedText(r) ==
    LET e == ExpandTemplate(r.value.text, 1, r.name)
    IN  IF e.raised THEN r.value.text ELSE e.sql

\* the variable to handle next among those left: a longest name, the first
\* defined among names of equal length
NextVar(left) ==
    CHOOSE k \in left : \A j \in left :
        \/ Len(Effective[k].name) > Len(Effective[j].name)
        \/ Len(Effective[k].name) = Len(Effective[j].name) /\ k <= j

\* whole-token substitution of the variables left, longer names first
RECURSIVE TokensReplaced(_, _)
ReplaceVar(text, left, k) ==
    TokensReplaced(ReplaceTokens(text, 1, Effective[k].name, InsertedText(Effective[k])),
                   left \ {k})

TokensReplaced(text, left) ==
    IF left = {} THEN text ELSE ReplaceVar(text, left, NextVar(left))

\* the variables with a value
WithValue == {k \in 1..Len(Effective) : ~Effective[k].value.null}

\* no variable with a value stands as a whole token in the first variant
NoneOccurs ==
    \A k \in WithValue : Occurrences(sqlList[1], 1, Effective[k].name) = {}

\* C18: the call returns the first SQL variant with exactly the whole-token
\* occurrences of the variable names replaced, longer names handled before
\* shorter ones, every other character unchanged; it returns the variant
\* unchanged when no variable occurs as a whole token.
C18_WholeTokensOnly ==
    (FillDone /\ sqlList # <<>>)
    => /\ ~fillOut.raised
       /\ fillOut.sql = TokensReplaced(sqlList[1], WithValue)
       /\ NoneOccurs => fillOut.sql = sqlList[1]

\* the names the question defines
QuestionNames == {sentVars[i].name : i \in 1..Len(sentVars)}

\* the entry variables that count: named, not defined by the question, and
\* the first of their name
EntryOnly ==
    SelectSeq([k \in 1..Len(entryVars) |->
                  [name |-> entryVars[k].name, value |-> entryVars[k].example,
                   first |-> \A j \in 1..(k - 1) : entryVars[j].name # entryVars[k].name]],
              LAMBDA e : e.name # <<>> /\ e.name \notin QuestionNames /\ e.first)

\* a variable with a value other than None
HasValue(r) == ~r.value.null

\* the question's variables, then the entry-only ones, without the null ones
QuestionFirst ==
    SelectSeq(sentVars \o [k \in 1..Len(EntryOnly) |->
                              [name |-> EntryOnly[k].name, value |-> EntryOnly[k].value]],
              HasValue)

\* C19: the call has the outcome of a call with the question's variables and
\* only those entry-level examples whose names the question does not define,
\* variables whose effective value is null being left out (unsubstituted).
C19_QuestionOverridesEntry ==
    FillDone => fillOut = FillGoldSql(sqlList, QuestionFirst, <<>>)

\* C19 witness: a name that stands in the template is defined by the
\* question and, with another value, by the entry, and the call returned a
\* changed text.
C19_Witness ==
    /\ FillDone
    /\ sqlList # <<>>
    /\ ~fillOut.raised
    /\ fillOut.sql # sqlList[1]
    /\ \E i \in 1..Len(sentVars) : \E k \in 1..Len(entryVars) :
          /\ sentVars[i].name = entryVars[k].name
          /\ sentVars[i].value # entryVars[k].example
          /\ ~sentVars[i].value.null
          /\ ~entryVars[k].example.null
          /\ Occurrences(sqlList[1], 1, sentVars[i].name) # {}

\* whole-token substitution of the variables left, longer names first, each
\* occurrence replaced by the characters of str(value)
RECURSIVE ValuesInserted(_, _)
InsertValue(text, left, k) ==
    ValuesInserted(ReplaceTokens(text, 1, Effective[k].name, Effective[k].value.text),
                   left \ {k})

ValuesInserted(text, left) ==
    IF left = {} THEN text ELSE InsertValue(text, left, NextVar(left))

\* C20: the call returns a string and never raises, and every substituted
\* occurrence is replaced by exactly the characters of str(value), quotes and
\* backslashes included; quotes around a placeholder stay.
C20_ValuesVerbatim ==
    FillDone
    => /\ ~fillOut.raised
       /\ sqlList # <<>> => fillOut.sql = ValuesInserted(sqlList[1], WithValue)

\* the variable with a value whose name stands as a whole token at p
VarAt(text, p) ==
    {k \in WithValue : p \in Occurrences(text, p, Effective[k].name)}

TheVarAt(text, p) == Effective[CHOOSE k \in VarAt(text, p) : TRUE]

\* one simultaneous substitution over text from p on: every whole-token
\* occurrence of a name gives way to the value of its own variable, and the
\* scan resumes after the occurrence
RECURSIVE Simultaneous(_, _)
Simultaneous(text, p) ==
    IF p > Len(text) THEN <<>>
    ELSE IF VarAt(text, p) # {}
         THEN TheVarAt(text, p).value.text
                 \o Simultaneous(text, p + Len(TheVarAt(text, p).name))
    ELSE <<text[p]>> \o Simultaneous(text, p + 1)

\* C27: the call returns the first variant with every whole-token
\* occurrence of a variable replaced by the value of that variable, in one
\* simultaneous substitution: text inserted as a value is not substituted
\* by a later variable.
C27_SimultaneousSubstitution ==
    (FillDone /\ sqlList # <<>>)
    => /\ ~fillOut.raised
       /\ fillOut.sql = Simultaneous(sqlList[1], 1)

(***************************************************************************)
(* Properties of the case normaliser                                       *)
(***************************************************************************)
NormDone == normPc = "normalized"

\* schema_tables[k] stands at position p of pred_sql as a whole word,
\* ignoring case
OccursAt(k, p) ==
    /\ p + Len(schemaTables[k]) - 1 <= Len(predSql)
    /\ ToLower(SubSeq(predSql, p, p + Len(schemaTables[k]) - 1)) = ToLower(schemaTables[k])
    /\ p > 1 => ~IsTokenChar(predSql[p - 1])
    /\ p + Len(schemaTables[k]) <= Len(predSql)
          => ~IsTokenChar(predSql[p + Len(schemaTables[k])])

\* the occurrences <<k, p>> that hold position i of pred_sql
Covering(i) ==
    {o \in (1..Len(schemaTables)) \X (1..i) :
        OccursAt(o[1], o[2]) /\ i < o[2] + Len(schemaTables[o[1]])}

\* C21: every whole-word occurrence of a table name, ignoring case, is
\* replaced by the name in its canonical case, and every other character of
\* the input stands unchanged at its place in the output.
C21_OnlyTableNamesChange ==
    NormDone
    => /\ Len(normOut) = Len(predSql)
       /\ \A i \in 1..Len(predSql) :
             IF Covering(i) = {}
             THEN normOut[i] = predSql[i]
             ELSE \E o \in Covering(i) : normOut[i] = schemaTables[o[1]][i - o[2] + 1]

(***************************************************************************)
(* Properties of the database manager                                      *)
(***************************************************************************)
\* the cache a call reads
CacheKind == IF lastCall.op = "get_fk_graph" THEN "graph" ELSE "map"

\* C22: after switch_database no cache entry populated before the switch
\* is returned by get_schema_map or get_fk_graph: an entry that a call
\* serves from the cache was populated since the last switch
C22_CachesInvalidatedOnSwitch ==
    lastCall.served => <<CacheKind, lastCall.key>> \in fresh

\* the graph get_fk_graph returned
ReturnedGraph == lastCall.graph

\* C23: the graph get_fk_graph builds is symmetric: whenever Y is in
\* graph[X], Y is a key of the graph and X is in graph[Y]
C23_FkGraphSymmetric ==
    lastCall.op = "get_fk_graph" =>
        \A x \in DOMAIN ReturnedGraph : \A y \in ReturnedGraph[x] :
            y \in DOMAIN ReturnedGraph /\ x \in ReturnedGraph[y]

\* the database a cache key names
DbOfKey(k) == IF k = "" THEN DefaultDb ELSE k

\* what introspecting database db can give, at any time
MapsOf(db) == {IntrospectSchemaMap(s) : s \in SchemasOf(db)}

GraphsOf(db) == {BuildFkGraph(s) : s \in SchemasOf(db)}

\* C29: the engine is connected to the database self.database names,
\* every cache entry under key k came from introspecting database k, and
\* get_schema_map returns a schema of the selected database
C29_CacheCoherence ==
    /\ engineDb = EngineFor(database)
    /\ \A k \in DOMAIN schemaMapCache : schemaMapCache[k] \in MapsOf(DbOfKey(k))
    /\ \A k \in DOMAIN fkGraphCache : fkGraphCache[k] \in GraphsOf(DbOfKey(k))
    /\ lastCall.op = "get_schema_map" => lastCall.map \in MapsOf(EngineFor(database))

\* get_schema_map served the schema of "a" from the cache while the
\* caches also hold an entry of "b"
C29_Witness ==
    /\ lastCall.op = "get_schema_map"
    /\ lastCall.served
    /\ database = "a"
    /\ "b" \in DOMAIN fkGraphCache

(***************************************************************************)
(* Properties of the tokenizer                                             *)
(***************************************************************************)
Tokenized == tokPc = "tokenized"

\* the raw tokens of the text split as an identifier, lower-cased
RawTokens == LowerAll(SplitIdent(tokIn))

EndsIn(tok, n, suffix) == Len(tok) >= n /\ SubSeq(tok, Len(tok) - n + 1, Len(tok)) = suffix

Without(tok, n) == SubSeq(tok, 1, Len(tok) - n)

\* the stem the claim describes: ing when the stem left is longer than 4,
\* else ed or es when the token is longer than 3, else s when the token is
\* longer than 2, else the token
StemOnce(tok) ==
    IF EndsIn(tok, 3, <<"i", "n", "g">>) /\ Len(tok) - 3 > 4 THEN Without(tok, 3)
    ELSE IF (EndsIn(tok, 2, <<"e", "d">>) \/ EndsIn(tok, 2, <<"e", "s">>)) /\ Len(tok) > 3 THEN Without(tok, 2)
    ELSE IF EndsIn(tok, 1, <<"s">>) /\ Len(tok) > 2 THEN Without(tok, 1)
    ELSE tok

\* C25: the stemmer strips at most one suffix, testing ing, then ed or es,
\* then s: ing only if the stem left is longer than 4 characters, ed or es
\* only if the token is longer than 3, s only if it is longer than 2;
\* otherwise the token is returned unchanged.
C25_StemThresholds ==
    Tokenized =>
        /\ Len(tokIdent) = Len(RawTokens)
        /\ \A k \in 1..Len(tokIdent) : tokIdent[k] = StemOnce(RawTokens[k])

\* C26: the tokenizer splits before it lowercases, for questions as for
\* identifiers: the tokens of a question are the stems of the pieces
\* between underscores, lower-to-upper transitions and letter/digit
\* transitions, without the stopwords; studentName gives student and name.
C26_SplitBeforeLower ==
    Tokenized =>
        /\ tokNorm = StemAll(SelectSeq(RawTokens, NotStopword))
        /\ tokIn = <<"s", "t", "u", "d", "e", "n", "t", "N", "a", "m", "e">> => tokNorm = <<<<"s", "t", "u", "d", "e", "n", "t">>, <<"n", "a", "m", "e">>>>
        /\ tokIn = <<"s", "t", "u", "d", "e", "n", "t", "N", "a", "m", "e">> => tokNorm = tokIdent

(***************************************************************************)
(* Properties of the prompt builder                                        *)
(***************************************************************************)
\* C30: whenever _make_inputs_under_limit returns, the prompt and the
\* tokens to generate fit the context: input_len + max_new_tokens <= max_ctx,
\* for every schema and question length.
C30_PromptWithinContext ==
    (promptPc = "built" /\ ~promptOut.raised)
    => promptOut.inputLen + maxNewTokens <= MaxCtx

====
